---- MODULE Spec2Model ----
(***************************************************************************)
(* The QMDP layer family of src/agents/qmdp_layers.py as a state machine.  *)
(*                                                                         *)
(* Tensors are symbolic terms <<op, attr, kids>>: op names the torch       *)
(* operation that produced the tensor, attr holds its non-tensor arguments *)
(* (a dim, an einsum equation, a shape) and kids its tensor operands.  Two *)
(* terms are equal exactly when the same operations were applied to the    *)
(* same operands in the same order, so an equality found here holds for    *)
(* every value the floating-point operations can take.  A tensor with a    *)
(* leading time axis is the term "stack" whose kids are its time slices.   *)
(*                                                                         *)
(* A forward call runs as: called -> (prologue) -> loop -> ... -> done, or *)
(* -> error when the Python code raises.  Two calls are made in a          *)
(* behaviour: any call, then a call whose arguments or parameters differ   *)
(* from the first in one stated way, so that two calls can be compared.    *)
(***************************************************************************)
EXTENDS Integers, Sequences, FiniteSets, TLC

VARIABLES
    theta,      \* the parameters of the three layer objects
    horizon,    \* self.horizon of the layers
    detach,     \* self.detach of the QMDPLayer
    phase,      \* "first": no call made yet; "second": one call has ended
    cls,        \* the class whose forward is running (or ran last)
    args,       \* the arguments of the forward call
    pc,         \* "idle", "called", "loop", "done", "error"
    frame,      \* the local variables of the forward call
    ret,        \* the value returned by forward
    prev,       \* the previous call: its class, arguments, outcome
    num,        \* the entries of the tensors of one batch entry (see NumSpec)
    sac,        \* the SAC trainer of src/algo/rl.py (see SacSpec)
    rwd         \* the calls of a CarfollowingReward (see RwdSpec)

vars == <<theta, horizon, detach, phase, cls, args, pc, frame, ret, prev, num,
          sac, rwd>>

\* Bounds of the model.
MaxT == 2
MaxH == 2
MaxASteps == 2

-----------------------------------------------------------------------------
(* Tensor terms *)

Term(op, attr, kids) == <<op, attr, kids>>
Op(x) == x[1]
Attr(x) == x[2]
Kids(x) == x[3]

None == Term("None", <<>>, <<>>)

\* A caller-supplied tensor: its name, its position on the time axis
\* (0 when it has none) and which of the possible values it holds.
Input(name, i, ver) == Term("input", <<name, i, ver>>, <<>>)

\* The value held by an nn.Parameter or an nn.Linear module.
Param(c, name, ver) == Term("param", <<c, name, ver>>, <<>>)

torch_empty == Term("empty", <<0>>, <<>>)
torch_stack(xs) == Term("stack", <<>>, xs)

\* Whether a tensor has the time axis: a stack has, a parameter or a single
\* caller-supplied tensor has not, and the result of an elementwise
\* operation has when an operand has (the others are broadcast).
RECURSIVE timed(_)
timed(x) ==
    \/ Op(x) = "stack"
    \/ \E i \in 1..Len(Kids(x)) : timed(Kids(x)[i])

\* len(x) of a tensor: the size of its leading axis, which for the result of
\* an elementwise operation is that of its operand with the time axis.
RECURSIVE len(_)
len(x) ==
    IF Op(x) = "stack" THEN Len(Kids(x))
    ELSE IF ~timed(x) THEN 1
    ELSE len(Kids(x)[CHOOSE i \in 1..Len(Kids(x)) : timed(Kids(x)[i])])

\* x[t] of a tensor: slice t of its leading axis.  Indexing the result of an
\* elementwise operation indexes its operands; an operand with no time axis
\* is broadcast, so every slice of it is the operand itself.
RECURSIVE getitem(_, _)
getitem(x, t) ==
    IF Op(x) = "stack" THEN Kids(x)[t + 1]
    ELSE IF ~timed(x) THEN x
    ELSE Term(Op(x), Attr(x), [i \in 1..Len(Kids(x)) |-> getitem(Kids(x)[i], t)])
torch_zeros(n, shape) == torch_stack([i \in 1..n |-> Term("zeros", shape, <<>>)])
torch_cat(x, y) == torch_stack(Kids(x) \o Kids(y))
torch_softmax(x, dim) == Term("softmax", <<dim>>, <<x>>)
torch_logsumexp(x, dim, keepdim) == Term("logsumexp", <<dim, keepdim>>, <<x>>)
torch_log(x) == Term("log", <<>>, <<x>>)
torch_exp(x) == Term("exp", <<>>, <<x>>)
torch_add(x, y) == Term("add", <<>>, <<x, y>>)
torch_sub(x, y) == Term("sub", <<>>, <<x, y>>)
torch_einsum(eq, xs) == Term("einsum", eq, xs)
torch_clip(x, lo, hi) == Term("clip", <<lo, hi>>, <<x>>)
torch_repeat_interleave(x, n, dim) == Term("repeat_interleave", <<n, dim>>, <<x>>)
torch_xlogy(x, y) == Term("xlogy", <<>>, <<x, y>>)
torch_lgamma(x) == Term("lgamma", <<>>, <<x>>)
torch_arange(K) == Term("arange", <<K>>, <<>>)
torch_view(x, shape) == Term("view", shape, <<x>>)
Scalar(s) == Term("scalar", <<s>>, <<>>)
data(x) == Term("data", <<>>, <<x>>)
nn_Linear(m, z) == Term("linear", <<>>, <<m, z>>)

\* An einsum equation: the axis labels of each operand and of the result.
Eq(ins, out) == <<ins, out>>
EqIns(eq) == eq[1]
EqOut(eq) == eq[2]

\* Python lists, indexed from 0.
at(l, i) == l[i + 1]
set(l, i, v) == [l EXCEPT ![i + 1] = v]
empties(n) == [i \in 1..n |-> torch_empty]

\* A record of one call made by forward: the method, the timestep (-1 before
\* the loop), its tensor arguments and its results.
Ev(op, t, ins, outs) == <<op, t, ins, outs>>
EvOp(e) == e[1]
EvT(e) == e[2]
EvIns(e) == e[3]
EvOuts(e) == e[4]

eps == Scalar("1e-6")

\* The belief and the Q-values a plan was computed from: a plan is the
\* einsum of softmax(einsum(b, value)) with the Poisson kernel.
plan_args(pi) == Kids(Kids(Kids(pi)[1])[1])

-----------------------------------------------------------------------------
(* poisson_pdf *)

poisson_pdf(rate, K) ==
    LET Ks == torch_add(Scalar("1"), torch_arange(K))
        poisson_logp == torch_sub(torch_sub(torch_xlogy(Ks, rate), rate),
                                  torch_lgamma(torch_add(Ks, Scalar("1"))))
    IN torch_softmax(poisson_logp, -1)

-----------------------------------------------------------------------------
(* QMDPLayer: causal qmdp layer using global action prior *)

QMDPLayer_transition ==
    LET w == torch_einsum(
                Eq(<< <<"n","r","i">>, <<"n","r","j">>, <<"n","r","k">> >>,
                   <<"n","k","i","j">>),
                <<theta.QMDPLayer.u, theta.QMDPLayer.v, theta.QMDPLayer.w>>)
    IN torch_softmax(w, -1)

\* Mutant of QMDPLayer_backup: the contraction runs over the source-state
\* axis of the transition tensor.
QMDPLayer_backup_source(q_t, transition, reward) ==
    LET v_next == torch_logsumexp(q_t, -2, TRUE)
    IN torch_add(reward,
                 torch_einsum(Eq(<< <<"n","k","i","j">>, <<"n","k","i">> >>,
                                 <<"n","k","j">>),
                              <<transition, v_next>>))

\* compute_value, lines 76-77: one backup, Q[t+1] from Q[t].
QMDPLayer_backup(q_t, transition, reward) ==
    LET v_next == torch_logsumexp(q_t, -2, TRUE)
    IN torch_add(reward,
                 torch_einsum(Eq(<< <<"n","k","i","j">>, <<"n","k","j">> >>,
                                 <<"n","k","i">>),
                              <<transition, v_next>>))

RECURSIVE QMDPLayer_value_loop(_, _, _, _, _)
QMDPLayer_value_loop(q, t, n, transition, reward) ==
    IF t >= n THEN q
    ELSE QMDPLayer_value_loop(
            set(q, t + 1, QMDPLayer_backup(at(q, t), transition, reward)),
            t + 1, n, transition, reward)

\* Mutant of QMDPLayer_compute_value: a call made after another starts the
\* iteration from the last Q of that call.
QMDPLayer_compute_value_warm(transition, reward) ==
    LET q0 == IF phase = "second" /\ prev.cls = "QMDPLayer" /\ prev.frame.value # None
              THEN Kids(prev.frame.value)[Len(Kids(prev.frame.value))]
              ELSE reward
        q == set(empties(horizon), 0, q0)
    IN torch_stack(QMDPLayer_value_loop(q, 0, horizon - 1, transition, reward))

QMDPLayer_compute_value(transition, reward) ==
    LET q == set(empties(horizon), 0, reward)
    IN torch_stack(QMDPLayer_value_loop(q, 0, horizon - 1, transition, reward))

\* plan, the lines that build the Poisson kernel.  tau.shape[0] is 1, the
\* parameter's; b.shape[0] is the batch size.
QMDPLayer_plan_tau ==
    LET tau0 == torch_exp(torch_clip(theta.QMDPLayer.tau, "log(1e-6)", "log(1e3)"))
        tau1 == poisson_pdf(tau0, horizon)
    IN IF 1 # args.batch_size
       THEN torch_repeat_interleave(tau1, args.batch_size, 0)
       ELSE tau1

QMDPLayer_plan(b, value) ==
    LET tau == QMDPLayer_plan_tau
        pi0 == torch_softmax(
                  torch_einsum(Eq(<< <<"n","i">>, <<"h","n","k","i">> >>,
                                  <<"h","n","k">>),
                               <<b, value>>), -1)
    IN torch_einsum(Eq(<< <<"h","n","k">>, <<"n","h">> >>, <<"n","k">>),
                    <<pi0, tau>>)

QMDPLayer_update_action(logp_u) ==
    torch_softmax(torch_add(theta.QMDPLayer.a0, logp_u), -1)

\* Mutant of QMDPLayer_update_belief: the belief is contracted with the
\* destination-state axis and the source-state axis is kept.
QMDPLayer_update_belief_source(logp_o, a, b, transition) ==
    LET s_next == torch_einsum(
                     Eq(<< <<"n","k","i","j">>, <<"n","j">>, <<"n","k">> >>,
                        <<"n","i">>),
                     <<transition, b, a>>)
        logp_s == torch_log(torch_add(s_next, eps))
    IN torch_softmax(torch_add(logp_s, logp_o), -1)

QMDPLayer_update_belief(logp_o, a, b, transition) ==
    LET s_next == torch_einsum(
                     Eq(<< <<"n","k","i","j">>, <<"n","i">>, <<"n","k">> >>,
                        <<"n","j">>),
                     <<transition, b, a>>)
        logp_s == torch_log(torch_add(s_next, eps))
    IN torch_softmax(torch_add(logp_s, logp_o), -1)

QMDPLayer_update_cell(logp_o, a, b, transition) ==
    QMDPLayer_update_belief(logp_o, a, b, transition)

QMDPLayer_init_hidden == torch_softmax(theta.QMDPLayer.b0, -1)


\* The local variables of a forward call.  exc names the exception raised,
\* "" when none; calls lists the calls made so far.
Frame(transition, value, T, t, b, pi, logp_u, alpha_a, alpha_b, alpha_pi, calls) ==
    [transition |-> transition, value |-> value, T |-> T, t |-> t, b |-> b,
     pi |-> pi, logp_u |-> logp_u, alpha_a |-> alpha_a, alpha_b |-> alpha_b,
     alpha_pi |-> alpha_pi, calls |-> calls, exc |-> ""]

Raise(f, e) == [f EXCEPT !.exc = e]

NoFrame == Frame(None, None, 0, 0, None, None, None, <<>>, <<>>, <<>>, <<>>)

\* Mutant of QMDPLayer_forward_pad: nothing is prepended.
QMDPLayer_forward_pad_none(logp_u, batch_size) == logp_u

\* Mutant of QMDPLayer_forward_pad: the zeros are appended, not prepended.
QMDPLayer_forward_pad_right(logp_u, batch_size) ==
    torch_cat(logp_u, torch_zeros(1, <<batch_size, "act_dim">>))

\* forward, line 175: the action log-likelihoods left-padded with zeros.
QMDPLayer_forward_pad(logp_u, batch_size) ==
    torch_cat(torch_zeros(1, <<batch_size, "act_dim">>), logp_u)

\* Mutant of QMDPLayer_forward_plan: the plan is computed from the belief
\* that entered step t.
QMDPLayer_forward_plan_prior(alpha_b, t, value) ==
    IF detach THEN QMDPLayer_plan(data(at(alpha_b, t)), value)
    ELSE QMDPLayer_plan(at(alpha_b, t), value)

\* Mutant of QMDPLayer_forward_plan: with detach, the plan is computed from
\* the belief that entered step t.
QMDPLayer_forward_plan_stale(alpha_b, t, value) ==
    IF detach THEN QMDPLayer_plan(data(at(alpha_b, t)), value)
    ELSE QMDPLayer_plan(at(alpha_b, t + 1), value)

\* Mutant of QMDPLayer_forward_plan: the belief is never detached.
QMDPLayer_forward_plan_attached(alpha_b, t, value) ==
    QMDPLayer_plan(at(alpha_b, t + 1), value)

\* forward, lines 184-187: the plan of step t.
QMDPLayer_forward_plan(alpha_b, t, value) ==
    IF detach THEN QMDPLayer_plan(data(at(alpha_b, t + 1)), value)
    ELSE QMDPLayer_plan(at(alpha_b, t + 1), value)

\* forward, lines 168-179: what runs before the loop.
QMDPLayer_forward_enter(a) ==
    LET batch_size == a.batch_size
        transition == QMDPLayer_transition
        value == QMDPLayer_compute_value(transition, a.reward)
        T == len(a.logp_o)
        calls == << Ev("transition", -1, <<>>, <<transition>>),
                    Ev("compute_value", -1, <<transition, a.reward>>, <<value>>) >>
        f0 == Frame(transition, value, T, 0, a.b, None, a.logp_u,
                    <<>>, <<>>, <<>>, calls)
    IN  IF a.b = None /\ a.logp_u = None THEN Raise(f0, "TypeError")   \* torch.cat
        ELSE IF a.logp_u = None THEN Raise(f0, "TypeError")   \* self.a0 + None
        ELSE
          LET b == IF a.b = None THEN QMDPLayer_init_hidden ELSE a.b
              logp_u == IF a.b = None
                        THEN QMDPLayer_forward_pad(a.logp_u, batch_size)
                        ELSE a.logp_u
              calls1 == IF a.b = None
                        THEN Append(calls, Ev("init_hidden", -1, <<>>, <<b>>))
                        ELSE calls
              alpha_a == QMDPLayer_update_action(logp_u)
          IN Frame(transition, value, T, 0, b, None, logp_u,
                   alpha_a, <<b>> \o empties(T), empties(T),
                   Append(calls1, Ev("update_action", -1, <<logp_u>>, <<alpha_a>>)))

\* Mutant of QMDPLayer_forward_body: from the second step on, the action
\* posterior takes the plan of the step before as its prior.
QMDPLayer_forward_body_feedback(a, f) ==
    LET t == f.t IN
    IF t >= len(f.alpha_a) THEN Raise(f, "IndexError")
    ELSE
      LET logp_o_t == getitem(a.logp_o, t)
          a_t == IF t = 0 THEN getitem(f.alpha_a, t)
                 ELSE torch_softmax(
                        torch_add(torch_log(torch_add(at(f.alpha_pi, t - 1), eps)),
                                  getitem(f.logp_u, t)), -1)
          b_post == QMDPLayer_update_cell(logp_o_t, a_t, at(f.alpha_b, t),
                                          f.transition)
          alpha_b == set(f.alpha_b, t + 1, b_post)
          pi == QMDPLayer_forward_plan(alpha_b, t, f.value)
      IN [f EXCEPT !.alpha_b = alpha_b,
                   !.alpha_pi = set(f.alpha_pi, t, pi),
                   !.t = t + 1,
                   !.calls = f.calls \o
                      << Ev("update_cell", t,
                            <<logp_o_t, a_t, at(f.alpha_b, t), f.transition>>,
                            <<b_post>>),
                         Ev("plan", t, plan_args(pi), <<pi>>) >>]

\* forward, lines 180-187: one iteration of the loop, at t = f.t.
QMDPLayer_forward_body(a, f) ==
    LET t == f.t IN
    IF t >= len(f.alpha_a) THEN Raise(f, "IndexError")   \* alpha_a[t]
    ELSE
      LET logp_o_t == getitem(a.logp_o, t)
          a_t == getitem(f.alpha_a, t)
          b_post == QMDPLayer_update_cell(logp_o_t, a_t, at(f.alpha_b, t),
                                          f.transition)
          alpha_b == set(f.alpha_b, t + 1, b_post)
          pi == QMDPLayer_forward_plan(alpha_b, t, f.value)
      IN [f EXCEPT !.alpha_b = alpha_b,
                   !.alpha_pi = set(f.alpha_pi, t, pi),
                   !.t = t + 1,
                   !.calls = f.calls \o
                      << Ev("update_cell", t,
                            <<logp_o_t, a_t, at(f.alpha_b, t), f.transition>>,
                            <<b_post>>),
                         Ev("plan", t, plan_args(pi), <<pi>>) >>]

\* Mutant of QMDPLayer_forward_return: alpha_b is stacked whole, with the
\* seed belief.
QMDPLayer_forward_return_seed(f) ==
    << torch_stack(f.alpha_b), torch_stack(f.alpha_pi) >>

\* forward, lines 189-191: (alpha_b, alpha_pi).
QMDPLayer_forward_return(f) ==
    << torch_stack(SubSeq(f.alpha_b, 2, Len(f.alpha_b))), torch_stack(f.alpha_pi) >>

-----------------------------------------------------------------------------
(* QMDPLayer2: non causal QMDP layer using agent policy as prior *)

QMDPLayer2_transition ==
    LET w == torch_einsum(
                Eq(<< <<"n","r","i">>, <<"n","r","j">>, <<"n","r","k">> >>,
                   <<"n","k","i","j">>),
                <<theta.QMDPLayer2.u, theta.QMDPLayer2.v, theta.QMDPLayer2.w>>)
    IN torch_softmax(w, -1)

QMDPLayer2_backup(q_t, transition, reward) ==
    LET v_next == torch_logsumexp(q_t, -2, TRUE)
    IN torch_add(reward,
                 torch_einsum(Eq(<< <<"n","k","i","j">>, <<"n","k","j">> >>,
                                 <<"n","k","i">>),
                              <<transition, v_next>>))

RECURSIVE QMDPLayer2_value_loop(_, _, _, _, _)
QMDPLayer2_value_loop(q, t, n, transition, reward) ==
    IF t >= n THEN q
    ELSE QMDPLayer2_value_loop(
            set(q, t + 1, QMDPLayer2_backup(at(q, t), transition, reward)),
            t + 1, n, transition, reward)

QMDPLayer2_compute_value(transition, reward) ==
    LET q == set(empties(horizon), 0, reward)
    IN torch_stack(QMDPLayer2_value_loop(q, 0, horizon - 1, transition, reward))

\* plan, the lines that build the Poisson kernel.  tau.shape[0] is 1, the
\* parameter's; b.shape[0] is the batch size.
QMDPLayer2_plan_tau ==
    LET tau0 == torch_exp(torch_clip(theta.QMDPLayer2.tau, "log(1e-6)", "log(1e3)"))
        tau1 == poisson_pdf(tau0, horizon)
    IN IF 1 # args.batch_size
       THEN torch_repeat_interleave(tau1, args.batch_size, 0)
       ELSE tau1

QMDPLayer2_plan(b, value) ==
    LET tau == QMDPLayer2_plan_tau
        pi0 == torch_softmax(
                  torch_einsum(Eq(<< <<"n","i">>, <<"h","n","k","i">> >>,
                                  <<"h","n","k">>),
                               <<b, value>>), -1)
    IN torch_einsum(Eq(<< <<"h","n","k">>, <<"n","h">> >>, <<"n","k">>),
                    <<pi0, tau>>)

QMDPLayer2_update_action(logp_u, pi) ==
    LET logp_pi == torch_log(torch_add(pi, eps))
    IN torch_softmax(torch_add(logp_pi, logp_u), -1)

QMDPLayer2_update_belief(logp_o, a, b, transition) ==
    LET s_next == torch_einsum(
                     Eq(<< <<"n","k","i","j">>, <<"n","i">>, <<"n","k">> >>,
                        <<"n","j">>),
                     <<transition, b, a>>)
        logp_s == torch_log(torch_add(s_next, eps))
    IN torch_softmax(torch_add(logp_s, logp_o), -1)

\* Mutant of QMDPLayer2_update_cell: the belief update is given the action
\* prior, not the action posterior.
QMDPLayer2_update_cell_prior(logp_o, logp_u, pi, b, transition) ==
    LET a_post == QMDPLayer2_update_action(logp_u, pi)
        b_post == QMDPLayer2_update_belief(logp_o, pi, b, transition)
    IN <<a_post, b_post>>

\* update_cell returns (a_post, b_post).
QMDPLayer2_update_cell(logp_o, logp_u, pi, b, transition) ==
    LET a_post == QMDPLayer2_update_action(logp_u, pi)
        b_post == QMDPLayer2_update_belief(logp_o, a_post, b, transition)
    IN <<a_post, b_post>>

\* init_hidden returns (b0, pi0).
QMDPLayer2_init_hidden ==
    << torch_softmax(theta.QMDPLayer2.b0, -1), torch_softmax(theta.QMDPLayer2.a0, -1) >>

\* Mutant of QMDPLayer2_forward_pad: nothing is prepended.
QMDPLayer2_forward_pad_none(logp_u, batch_size) == logp_u

\* forward, line 341: the action log-likelihoods left-padded with zeros.
QMDPLayer2_forward_pad(logp_u, batch_size) ==
    torch_cat(torch_zeros(1, <<batch_size, "act_dim">>), logp_u)

\* Mutant of QMDPLayer2_forward_enter: with no belief supplied, a call made
\* after another starts from the last belief and plan of that call.
QMDPLayer2_forward_enter_kept(a) ==
    LET batch_size == a.batch_size
        transition == QMDPLayer2_transition
        value == QMDPLayer2_compute_value(transition, a.reward)
        T == len(a.logp_o)
        calls == << Ev("transition", -1, <<>>, <<transition>>),
                    Ev("compute_value", -1, <<transition, a.reward>>, <<value>>) >>
        f0 == Frame(transition, value, T, 0, a.b, a.pi, a.logp_u,
                    <<>>, <<>>, <<>>, calls)
    IN  IF a.b = None /\ a.logp_u = None THEN Raise(f0, "TypeError")
        ELSE
          LET h == IF phase = "second" /\ prev.cls = "QMDPLayer2" /\ prev.pc = "done"
                   THEN << prev.frame.alpha_b[Len(prev.frame.alpha_b)],
                           prev.frame.alpha_pi[Len(prev.frame.alpha_pi)] >>
                   ELSE QMDPLayer2_init_hidden
              b == IF a.b = None THEN h[1] ELSE a.b
              pi == IF a.b = None THEN h[2] ELSE a.pi
              logp_u == IF a.b = None
                        THEN QMDPLayer2_forward_pad(a.logp_u, batch_size)
                        ELSE a.logp_u
              calls1 == IF a.b = None
                        THEN Append(calls, Ev("init_hidden", -1, <<>>, h))
                        ELSE calls
          IN Frame(transition, value, T, 0, b, pi, logp_u,
                   empties(T), <<b>> \o empties(T), <<pi>> \o empties(T), calls1)

\* forward, lines 334-345: what runs before the loop.
QMDPLayer2_forward_enter(a) ==
    LET batch_size == a.batch_size
        transition == QMDPLayer2_transition
        value == QMDPLayer2_compute_value(transition, a.reward)
        T == len(a.logp_o)
        calls == << Ev("transition", -1, <<>>, <<transition>>),
                    Ev("compute_value", -1, <<transition, a.reward>>, <<value>>) >>
        f0 == Frame(transition, value, T, 0, a.b, a.pi, a.logp_u,
                    <<>>, <<>>, <<>>, calls)
    IN  IF a.b = None /\ a.logp_u = None THEN Raise(f0, "TypeError")   \* torch.cat
        ELSE
          LET h == QMDPLayer2_init_hidden
              b == IF a.b = None THEN h[1] ELSE a.b
              pi == IF a.b = None THEN h[2] ELSE a.pi
              logp_u == IF a.b = None
                        THEN QMDPLayer2_forward_pad(a.logp_u, batch_size)
                        ELSE a.logp_u
              calls1 == IF a.b = None
                        THEN Append(calls, Ev("init_hidden", -1, <<>>, h))
                        ELSE calls
          IN Frame(transition, value, T, 0, b, pi, logp_u,
                   empties(T), <<b>> \o empties(T), <<pi>> \o empties(T), calls1)

\* Mutant of QMDPLayer2_forward_body: value iteration is run again in every
\* iteration of the loop.
QMDPLayer2_forward_body_recompute(a, f) ==
    LET t == f.t IN
    IF f.logp_u = None THEN Raise(f, "TypeError")
    ELSE IF t >= len(f.logp_u) THEN Raise(f, "IndexError")
    ELSE IF at(f.alpha_pi, t) = None THEN Raise(f, "TypeError")
    ELSE
      LET logp_o_t == getitem(a.logp_o, t)
          logp_u_t == getitem(f.logp_u, t)
          value == QMDPLayer2_compute_value(f.transition, a.reward)
          c == QMDPLayer2_update_cell(logp_o_t, logp_u_t, at(f.alpha_pi, t),
                                      at(f.alpha_b, t), f.transition)
          pi == QMDPLayer2_plan(c[2], value)
      IN [f EXCEPT !.alpha_a = set(f.alpha_a, t, c[1]),
                   !.alpha_b = set(f.alpha_b, t + 1, c[2]),
                   !.alpha_pi = set(f.alpha_pi, t + 1, pi),
                   !.t = t + 1,
                   !.value = value,
                   !.calls = f.calls \o
                      << Ev("compute_value", t, <<f.transition, a.reward>>, <<value>>),
                         Ev("update_cell", t,
                            <<logp_o_t, logp_u_t, at(f.alpha_pi, t),
                              at(f.alpha_b, t), f.transition>>, c),
                         Ev("plan", t, <<c[2], value>>, <<pi>>) >>]

\* forward, lines 346-350: one iteration of the loop, at t = f.t.
QMDPLayer2_forward_body(a, f) ==
    LET t == f.t IN
    IF f.logp_u = None THEN Raise(f, "TypeError")             \* None[t]
    ELSE IF t >= len(f.logp_u) THEN Raise(f, "IndexError")    \* logp_u[t]
    ELSE IF at(f.alpha_pi, t) = None THEN Raise(f, "TypeError")   \* None + eps
    ELSE
      LET logp_o_t == getitem(a.logp_o, t)
          logp_u_t == getitem(f.logp_u, t)
          c == QMDPLayer2_update_cell(logp_o_t, logp_u_t, at(f.alpha_pi, t),
                                      at(f.alpha_b, t), f.transition)
          pi == QMDPLayer2_plan(c[2], f.value)
      IN [f EXCEPT !.alpha_a = set(f.alpha_a, t, c[1]),
                   !.alpha_b = set(f.alpha_b, t + 1, c[2]),
                   !.alpha_pi = set(f.alpha_pi, t + 1, pi),
                   !.t = t + 1,
                   !.calls = f.calls \o
                      << Ev("update_cell", t,
                            <<logp_o_t, logp_u_t, at(f.alpha_pi, t),
                              at(f.alpha_b, t), f.transition>>, c),
                         Ev("plan", t, <<c[2], f.value>>, <<pi>>) >>]

\* forward, lines 352-355: (alpha_a, alpha_b, alpha_pi).
QMDPLayer2_forward_return(f) ==
    << torch_stack(f.alpha_a),
       torch_stack(SubSeq(f.alpha_b, 2, Len(f.alpha_b))),
       torch_stack(SubSeq(f.alpha_pi, 2, Len(f.alpha_pi))) >>

-----------------------------------------------------------------------------
(* HyperQMDPLayer: hypernet version of qmdp layer *)

HyperQMDPLayer_compute_transition(z) ==
    LET u == torch_view(nn_Linear(theta.HyperQMDPLayer._u, z), <<-1, "rank", "state_dim">>)
        v == torch_view(nn_Linear(theta.HyperQMDPLayer._v, z), <<-1, "rank", "state_dim">>)
        w == torch_view(nn_Linear(theta.HyperQMDPLayer._w, z), <<-1, "rank", "act_dim">>)
        core == torch_einsum(
                   Eq(<< <<"n","r","i">>, <<"n","r","j">>, <<"n","r","k">> >>,
                      <<"n","k","i","j">>),
                   <<u, v, w>>)
    IN torch_softmax(core, -1)

HyperQMDPLayer_backup(q_t, transition, reward) ==
    LET v_next == torch_logsumexp(q_t, -2, TRUE)
    IN torch_add(reward,
                 torch_einsum(Eq(<< <<"n","k","i","j">>, <<"n","k","j">> >>,
                                 <<"n","k","i">>),
                              <<transition, v_next>>))

RECURSIVE HyperQMDPLayer_value_loop(_, _, _, _, _)
HyperQMDPLayer_value_loop(q, t, n, transition, reward) ==
    IF t >= n THEN q
    ELSE HyperQMDPLayer_value_loop(
            set(q, t + 1, HyperQMDPLayer_backup(at(q, t), transition, reward)),
            t + 1, n, transition, reward)

HyperQMDPLayer_compute_value(transition, reward) ==
    LET q == set(empties(horizon), 0, reward)
    IN torch_stack(HyperQMDPLayer_value_loop(q, 0, horizon - 1, transition, reward))

\* plan, the lines that build the Poisson kernel.
HyperQMDPLayer_plan_tau(z) ==
    LET tau0 == torch_exp(torch_clip(nn_Linear(theta.HyperQMDPLayer._tau, z),
                                     "log(1e-6)", "log(1e3)"))
    IN poisson_pdf(tau0, horizon)

HyperQMDPLayer_plan(b, z, value) ==
    LET tau == HyperQMDPLayer_plan_tau(z)
        a == torch_softmax(
                torch_einsum(Eq(<< <<"n","i">>, <<"h","n","k","i">> >>,
                                <<"h","n","k">>),
                             <<b, value>>), -1)
    IN torch_einsum(Eq(<< <<"h","n","k">>, <<"n","h">> >>, <<"n","k">>),
                    <<a, tau>>)

HyperQMDPLayer_update_belief(logp_o, transition, b, a) ==
    LET s_next == torch_einsum(
                     Eq(<< <<"n","k","i","j">>, <<"n","i">>, <<"n","k">> >>,
                        <<"n","j">>),
                     <<transition, b, a>>)
        logp_s == torch_log(torch_add(s_next, eps))
    IN torch_softmax(torch_add(logp_s, logp_o), -1)

HyperQMDPLayer_update_action(logp_u, a) ==
    LET logp_a == torch_log(torch_add(a, eps))
    IN torch_softmax(torch_add(logp_a, logp_u), -1)

\* Mutant of HyperQMDPLayer_update_cell: the belief update is given the
\* action prior, not the action posterior.
HyperQMDPLayer_update_cell_prior(logp_o, logp_u, z, b, a, transition, value) ==
    LET b_post == HyperQMDPLayer_update_belief(logp_o, transition, b, a)
        a_next == HyperQMDPLayer_plan(b_post, z, value)
    IN <<b_post, a_next>>

\* update_cell returns (b_post, a_next).
HyperQMDPLayer_update_cell(logp_o, logp_u, z, b, a, transition, value) ==
    LET a_post == HyperQMDPLayer_update_action(logp_u, a)
        b_post == HyperQMDPLayer_update_belief(logp_o, transition, b, a_post)
        a_next == HyperQMDPLayer_plan(b_post, z, value)
    IN <<b_post, a_next>>

\* init_hidden returns (b, a).
HyperQMDPLayer_init_hidden(logp_o, z, value) ==
    LET b0 == torch_softmax(nn_Linear(theta.HyperQMDPLayer._b0, z), -1)
        logp_s == torch_log(torch_add(b0, eps))
        b == torch_softmax(torch_add(logp_s, logp_o), -1)
        a == HyperQMDPLayer_plan(b, z, value)
    IN <<b, a>>

\* Mutant of HyperQMDPLayer_t_offset: no offset.
HyperQMDPLayer_t_offset_zero(a) == 0

\* forward, line 505: the offset for offline prediction.
HyperQMDPLayer_t_offset(a) == IF a.b # None THEN 0 ELSE -1

\* forward, lines 503-509: what runs before the loop.
HyperQMDPLayer_forward_enter(a) ==
    LET transition == HyperQMDPLayer_compute_transition(a.z)
        value == HyperQMDPLayer_compute_value(transition, a.reward)
        T == len(a.logp_o)
        calls == << Ev("transition", -1, <<a.z>>, <<transition>>),
                    Ev("compute_value", -1, <<transition, a.reward>>, <<value>>) >>
    IN Frame(transition, value, T, 0, a.b, a.pi, a.logp_u,
             <<a.pi>> \o empties(T), <<a.b>> \o empties(T), <<>>, calls)

\* forward, lines 510-517: one iteration of the loop, at t = f.t.
HyperQMDPLayer_forward_body(a, f) ==
    LET t == f.t
        t_offset == HyperQMDPLayer_t_offset(a)
        logp_o_t == getitem(a.logp_o, t)
    IN
    IF at(f.alpha_b, t) = None THEN
      LET h == HyperQMDPLayer_init_hidden(logp_o_t, a.z, f.value)
      IN [f EXCEPT !.alpha_b = set(f.alpha_b, t + 1, h[1]),
                   !.alpha_a = set(f.alpha_a, t + 1, h[2]),
                   !.t = t + 1,
                   !.calls = f.calls \o
                      << Ev("init_hidden", t, <<logp_o_t, a.z, f.value>>, h),
                         Ev("plan", t, <<h[1], a.z, f.value>>, <<h[2]>>) >>]
    ELSE IF a.logp_u = None THEN Raise(f, "TypeError")       \* None[t+t_offset]
    ELSE IF t + t_offset >= len(a.logp_u) \/ t + t_offset < -len(a.logp_u)
         THEN Raise(f, "IndexError")
    ELSE IF at(f.alpha_a, t) = None THEN Raise(f, "TypeError")   \* None + eps
    ELSE
      LET i == IF t + t_offset >= 0 THEN t + t_offset
               ELSE len(a.logp_u) + t + t_offset
          logp_u_t == getitem(a.logp_u, i)
          c == HyperQMDPLayer_update_cell(logp_o_t, logp_u_t, a.z, at(f.alpha_b, t),
                                          at(f.alpha_a, t), f.transition, f.value)
      IN [f EXCEPT !.alpha_b = set(f.alpha_b, t + 1, c[1]),
                   !.alpha_a = set(f.alpha_a, t + 1, c[2]),
                   !.t = t + 1,
                   !.calls = f.calls \o
                      << Ev("update_cell", t,
                            <<logp_o_t, logp_u_t, a.z, at(f.alpha_b, t),
                              at(f.alpha_a, t), f.transition, f.value>>, c),
                         Ev("plan", t, <<c[1], a.z, f.value>>, <<c[2]>>) >>]

\* forward, line 518: (alpha_b, alpha_a).
HyperQMDPLayer_forward_return(f) ==
    << torch_stack(SubSeq(f.alpha_b, 2, Len(f.alpha_b))),
       torch_stack(SubSeq(f.alpha_a, 2, Len(f.alpha_a))) >>

-----------------------------------------------------------------------------
(* Tensor values *)

(***************************************************************************)
(* The operations above say which computation produced a tensor; the ones  *)
(* below compute its entries, exactly.  A natural number is a sequence of  *)
(* base-1000 digits, lowest first, with no leading zero, so that it may be *)
(* of any size.  A vector of probabilities is <<nums, den>>: its entries   *)
(* are nums[i]/den.  A tensor in the log domain (a log-likelihood, a       *)
(* logit) is held as the exponentials of its entries, up to one common     *)
(* positive factor, on which a softmax does not depend:                    *)
(* softmax(x + c) = softmax(x).  In that form torch.log is the identity,   *)
(* + is the entrywise product and softmax divides by the sum.              *)
(***************************************************************************)

\* A natural number as digits.
RECURSIVE Big(_)
Big(n) == IF n = 0 THEN <<>> ELSE <<n % 1000>> \o Big(n \div 1000)

\* x + y + c.
RECURSIVE BigAddC(_, _, _)
BigAddC(x, y, c) ==
    IF x = <<>> /\ y = <<>> THEN Big(c)
    ELSE LET a == IF x = <<>> THEN 0 ELSE Head(x)
             b == IF y = <<>> THEN 0 ELSE Head(y)
             s == a + b + c
         IN <<s % 1000>> \o BigAddC(IF x = <<>> THEN x ELSE Tail(x),
                                    IF y = <<>> THEN y ELSE Tail(y),
                                    s \div 1000)
BigAdd(x, y) == BigAddC(x, y, 0)

\* x * m + c for a natural m below 2,000,000.
RECURSIVE BigMulC(_, _, _)
BigMulC(x, m, c) ==
    IF x = <<>> THEN Big(c)
    ELSE LET s == Head(x) * m + c
         IN <<s % 1000>> \o BigMulC(Tail(x), m, s \div 1000)
BigMul(x, m) == IF m = 0 THEN <<>> ELSE BigMulC(x, m, 0)

RECURSIVE BigMulAll(_, _)
BigMulAll(x, ms) == IF ms = <<>> THEN x ELSE BigMulAll(BigMul(x, Head(ms)), Tail(ms))

RECURSIVE BigSum(_)
BigSum(xs) == IF xs = <<>> THEN <<>> ELSE BigAdd(Head(xs), BigSum(Tail(xs)))

\* x * y.
RECURSIVE BigTimes(_, _)
BigTimes(x, y) ==
    IF x = <<>> \/ y = <<>> THEN <<>>
    ELSE LET rest == BigTimes(Tail(x), y)
         IN BigAdd(BigMul(y, Head(x)), IF rest = <<>> THEN rest ELSE <<0>> \o rest)

RECURSIVE BigProd(_)
BigProd(xs) == IF xs = <<>> THEN Big(1) ELSE BigTimes(Head(xs), BigProd(Tail(xs)))

\* x <= y: the longer number is the greater; of two of one length, the one
\* with the greater highest digit that differs.
RECURSIVE BigLe(_, _)
BigLe(x, y) ==
    IF Len(x) # Len(y) THEN Len(x) < Len(y)
    ELSE IF x = <<>> THEN TRUE
    ELSE IF x[Len(x)] # y[Len(y)] THEN x[Len(x)] < y[Len(y)]
    ELSE BigLe(SubSeq(x, 1, Len(x) - 1), SubSeq(y, 1, Len(y) - 1))

\* The sequence xs without its entry i.
Without(xs, i) == SubSeq(xs, 1, i - 1) \o SubSeq(xs, i + 1, Len(xs))

\* A positive real (p/q) * 10^e, and the order of two of them.
Real(p, q, e) == <<p, q, e>>
RealLe(r, s) ==
    LET m == IF r[3] < s[3] THEN r[3] ELSE s[3]
    IN BigLe(BigMulAll(Big(r[1] * s[2]), [i \in 1..(r[3] - m) |-> 10]),
             BigMulAll(Big(s[1] * r[2]), [i \in 1..(s[3] - m) |-> 10]))

\* torch.softmax over the axis of a vector held as exponentials w.
softmax_value(w) == <<w, BigSum(w)>>

\* x + y of two log-domain vectors, held as exponentials.
add_value(x, y) == [i \in 1..Len(x) |-> BigTimes(x[i], y[i])]

\* self.eps, 1e-6, is 1 / eps_den.
eps_den == 1000000

\* torch.log(x + self.eps) for a vector of probabilities x, held as
\* exponentials: (x[i] + eps) times the common factor den * eps_den.
log_eps_value(x) == [i \in 1..Len(x[1]) |-> BigAdd(BigMul(x[1][i], eps_den), x[2])]

\* Mutant of poisson_pdf_value: the bins are 0..K-1.
poisson_pdf_value_from_zero(rate, K) ==
    LET p == rate[1]
        q == rate[2]
        e == rate[3]
        low == IF e >= 0 THEN 0 ELSE e * (K - 1)
        w == [k \in 1..K |->
                BigMulAll(Big(1),
                    [i \in 1..(k - 1) |-> p] \o [i \in 1..(K - k) |-> q]
                    \o [i \in 1..(K - k) |-> k - 1 + i]
                    \o [i \in 1..(e * (k - 1) - low) |-> 10])]
    IN softmax_value(w)

\* poisson_pdf, lines 19-21, at rate (p/q) * 10^e: the exponential of
\* poisson_logp at bin k is rate^k * exp(-rate) / k!, for k = 1..K, held
\* with the common factor exp(rate) * q^K * K! * 10^-low, low being the
\* least power of ten among the bins.
poisson_pdf_value(rate, K) ==
    LET p == rate[1]
        q == rate[2]
        e == rate[3]
        low == IF e >= 0 THEN e ELSE e * K
        w == [k \in 1..K |->
                BigMulAll(Big(1),
                    [i \in 1..k |-> p] \o [i \in 1..(K - k) |-> q]
                    \o [i \in 1..(K - k) |-> k + i]
                    \o [i \in 1..(e * k - low) |-> 10])]
    IN softmax_value(w)

\* torch.argmax of a kernel: the first index of its greatest entry.
argmax_value(x) ==
    CHOOSE k \in 1..Len(x[1]) :
        /\ \A j \in 1..Len(x[1]) : BigLe(x[1][j], x[1][k])
        /\ \A j \in 1..(k - 1) : x[1][j] # x[1][k]

\* Tensor.clip(lo, hi) of a number.
clip_value(x, lo, hi) == IF x < lo THEN lo ELSE IF x > hi THEN hi ELSE x

\* torch.exp of n * log(10).
exp_value(n) == Real(1, 1, n)

\* Mutant of plan_rate_value: the rate is not clipped.
plan_rate_value_unclipped(tau) == exp_value(tau)

\* plan, line 91 (260, 426): the rate of the kernel, from a tau (or a
\* _tau(z)) of tau * log(10); math.log(1e-6) is -6 * log(10) and
\* math.log(1e3) is 3 * log(10).
plan_rate_value(tau) == exp_value(clip_value(tau, -6, 3))

\* Mutant of plan_value: the per-horizon policies are summed, not weighted
\* by the kernel.
plan_value_unweighted(logits, tau) ==
    LET pi == [h \in 1..Len(logits) |-> softmax_value(logits[h])]
        dens == [h \in 1..Len(pi) |-> pi[h][2]]
    IN << [k \in 1..Len(logits[1]) |->
             BigSum([h \in 1..Len(pi) |->
                       BigTimes(pi[h][1][k], BigProd(Without(dens, h)))])],
          BigProd(dens) >>

\* plan, lines 96-97 (265-266, 429-430), for one batch entry: logits[h][k]
\* is the result of einsum("ni, hnki -> hnk", b, value), held as
\* exponentials, and tau the kernel; einsum("hnk, nh -> nk", pi, tau).
plan_value(logits, tau) ==
    LET pi == [h \in 1..Len(logits) |-> softmax_value(logits[h])]
        dens == [h \in 1..Len(pi) |-> pi[h][2]]
    IN << [k \in 1..Len(logits[1]) |->
             BigSum([h \in 1..Len(pi) |->
                       BigTimes(BigTimes(pi[h][1][k], tau[1][h]),
                                BigProd(Without(dens, h)))])],
          BigTimes(BigProd(dens), tau[2]) >>

\* 2^n for a natural n.
RECURSIVE exp2_value(_)
exp2_value(n) == IF n = 0 THEN Big(1) ELSE BigMul(exp2_value(n - 1), 2)

\* einsum("nri, nrj, nrk -> nkij", u, v, w) for one batch entry: u[r][i],
\* v[r][j], w[r][k] are integers, the entries of the result are in units of
\* log(2).
transition_core_value(u, v, w) ==
    [k \in 1..Len(w[1]) |-> [i \in 1..Len(u[1]) |-> [j \in 1..Len(v[1]) |->
        u[1][i] * v[1][j] * w[1][k] + u[2][i] * v[2][j] * w[2][k] ]]]

\* The least entry of a sequence of integers.
min_value(xs) == CHOOSE m \in {xs[i] : i \in 1..Len(xs)} : \A i \in 1..Len(xs) : m <= xs[i]

\* Mutant of transition_value: the softmax runs over the source-state axis.
transition_value_source(u, v, w) ==
    LET core == transition_core_value(u, v, w)
        col == [k \in 1..Len(core) |-> [j \in 1..Len(core[k][1]) |->
                  LET c == [i \in 1..Len(core[k]) |-> core[k][i][j]]
                  IN softmax_value([i \in 1..Len(c) |->
                                      exp2_value(c[i] - min_value(c))])]]
    IN [k \in 1..Len(core) |-> [i \in 1..Len(core[k]) |->
          LET dens == [j \in 1..Len(col[k]) |-> col[k][j][2]]
          IN << [j \in 1..Len(col[k]) |->
                   BigTimes(col[k][j][1][i], BigProd(Without(dens, j)))],
                BigProd(dens) >> ]]

\* transition, lines 59-60 (228-229, 393-394), for one batch entry:
\* transition[k][i] is the vector over j; the exponential of an entry c of
\* a row is 2^c, held with the row's common factor 2^-min.
transition_value(u, v, w) ==
    LET core == transition_core_value(u, v, w)
    IN [k \in 1..Len(core) |-> [i \in 1..Len(core[k]) |->
          softmax_value([j \in 1..Len(core[k][i]) |->
                           exp2_value(core[k][i][j] - min_value(core[k][i]))])]]

\* QMDPLayer.update_action, line 111: softmax(a0 + logp_u).
QMDPLayer_update_action_value(a0, logp_u) == softmax_value(add_value(a0, logp_u))

\* QMDPLayer2.update_action, lines 280-281 (HyperQMDPLayer: 462-463).
QMDPLayer2_update_action_value(logp_u, pi) ==
    softmax_value(add_value(log_eps_value(pi), logp_u))

\* update_belief, lines 127-129 (297-299, 446-448), for one batch entry:
\* einsum("nkij, ni, nk -> nj", transition, b, a) over the common
\* denominator of the rows of transition, b and a.
update_belief_value(logp_o, a, b, transition) ==
    LET rows == [n \in 1..(Len(transition) * Len(transition[1])) |->
                   transition[((n - 1) \div Len(transition[1])) + 1]
                             [((n - 1) % Len(transition[1])) + 1]]
        dens == [n \in 1..Len(rows) |-> rows[n][2]]
        s_next == << [j \in 1..Len(b[1]) |->
                        BigSum([n \in 1..Len(rows) |->
                           BigTimes(BigTimes(rows[n][1][j], BigProd(Without(dens, n))),
                                    BigTimes(b[1][((n - 1) % Len(transition[1])) + 1],
                                             a[1][((n - 1) \div Len(transition[1])) + 1]))])],
                     BigTimes(BigProd(dens), BigTimes(b[2], a[2])) >>
    IN softmax_value(add_value(log_eps_value(s_next), logp_o))

\* init_hidden, line 142 (313-314): softmax(b0).
QMDPLayer_init_hidden_value(b0) == softmax_value(b0)

\* HyperQMDPLayer.init_hidden, lines 479-481.
HyperQMDPLayer_init_hidden_value(b0, logp_o) ==
    softmax_value(add_value(log_eps_value(softmax_value(b0)), logp_o))

-----------------------------------------------------------------------------
(* The layers, the callers' arguments, and the calls *)

Classes == {"QMDPLayer", "QMDPLayer2", "HyperQMDPLayer"}

\* __init__: the parameters of each layer, as first initialised.
Theta0 ==
    [QMDPLayer |->
        [n \in {"b0", "a0", "u", "v", "w", "tau"} |-> Param("QMDPLayer", n, 0)],
     QMDPLayer2 |->
        [n \in {"b0", "a0", "u", "v", "w", "tau"} |-> Param("QMDPLayer2", n, 0)],
     HyperQMDPLayer |->
        [n \in {"_b0", "_u", "_v", "_w", "_tau"} |-> Param("HyperQMDPLayer", n, 0)]]

\* A time-major sequence of n caller-supplied tensors.
Sequence(name, n) == torch_stack([i \in 1..n |-> Input(name, i - 1, 0)])

\* The batch sizes: one, and more than one.
BatchSizes == {1, 2}

\* The arguments a caller may pass to forward of class c: T observations,
\* T or T-1 action log-likelihoods or None, an initial belief or None, and,
\* where the signature has them, an initial plan or None and the vector z.
Arguments(c) ==
    UNION { { [logp_o |-> Sequence("logp_o", T), logp_u |-> lu,
               reward |-> Input("reward", 0, 0),
               z |-> IF c = "HyperQMDPLayer" THEN Input("z", 0, 0) ELSE None,
               b |-> b, pi |-> pi, batch_size |-> n] :
                n \in BatchSizes,
                lu \in {None, Sequence("logp_u", T - 1), Sequence("logp_u", T)},
                b \in {None, Input("b", 0, 0)},
                pi \in IF c = "QMDPLayer" THEN {None}
                       ELSE {None, Input("pi", 0, 0)} } : T \in 1..MaxT }

\* The entries computed so far: the method that ran last (op), the class
\* it belongs to, the parameters (a0 and tau, as held), the transition
\* tensor, the rate and the kernel of the last plan, the belief b, the
\* action posterior a, the plan pi, the number t of timesteps done, and the
\* mode of the kernel computed before the last one (below).
Num(op, c, a0, tau, transition, rate, kernel, b, a, pi, t, below) ==
    [op |-> op, cls |-> c, a0 |-> a0, tau |-> tau, transition |-> transition,
     rate |-> rate, kernel |-> kernel, b |-> b, a |-> a, pi |-> pi, t |-> t,
     below |-> below]

NoNum == Num("start", "", <<>>, 0, <<>>, <<>>, <<>>, <<>>, <<>>, <<>>, 0, 0)

-----------------------------------------------------------------------------
(* SAC: soft actor critic (src/algo/rl.py) *)

\* The parameter sets of the trainer: the critic's, the agent's, and those
\* of the target critic.
SacParams == {"critic", "agent", "target"}

\* __init__, lines 92-97: the parameters each optimizer holds.
critic_optimizer_params == {"critic"}
actor_optimizer_params == {"agent"}

\* compute_critic_loss, lines 127-140: the parameters its loss is a
\* differentiable function of.  The next action and the target value are
\* computed under torch.no_grad().
critic_loss_graph == {"critic"}

\* compute_actor_loss, lines 151-156: the sampled action and its
\* log-probability come from the agent, and q from the critic.
actor_loss_graph == {"agent", "critic"}

\* A gradient buffer is the sequence of the gradients accumulated in it:
\* <<name, i, inner>> is the gradient of loss name of iteration i, or, for
\* the name "clip", the buffer inner rescaled by clip_grad_norm_; the name
\* "stale" is a gradient left there before take_gradient_step was called.
Grad(name, i, inner) == <<name, i, inner>>

\* loss.backward(): the gradient is added to the buffer of every parameter
\* set the loss depends on that requires grad.
backward(grad, requires_grad, loss, i, graph) ==
    [p \in SacParams |->
        IF p \in graph /\ requires_grad[p]
        THEN Append(grad[p], Grad(loss, i, <<>>))
        ELSE grad[p]]

\* nn.utils.clip_grad_norm_(parameters, self.grad_clip), when grad_clip is
\* not None.
clip_grad_norm(grad, ps, grad_clip) ==
    [p \in SacParams |->
        IF grad_clip # "None" /\ p \in ps /\ grad[p] # <<>>
        THEN <<Grad("clip", 0, grad[p])>>
        ELSE grad[p]]

\* optimizer.step(): each parameter set of the optimizer moves by what its
\* buffer holds.
optimizer_step(params, grad, ps) ==
    [p \in SacParams |->
        IF p \in ps THEN Term("step", <<grad[p]>>, <<params[p]>>) ELSE params[p]]

\* optimizer.zero_grad().
zero_grad(grad, ps) == [p \in SacParams |-> IF p \in ps THEN <<>> ELSE grad[p]]

\* lines 172-173: after the critic's step.
SAC_critic_zero_grads(grad) ==
    zero_grad(zero_grad(grad, critic_optimizer_params), actor_optimizer_params)

\* Mutant of SAC_actor_zero_grads: only the actor's buffers are cleared.
SAC_actor_zero_grads_own(grad) == zero_grad(grad, actor_optimizer_params)

\* lines 183-184: after the actor's step.
SAC_actor_zero_grads(grad) ==
    zero_grad(zero_grad(grad, actor_optimizer_params), critic_optimizer_params)

\* Mutant of SAC_target_update: the average is taken the other way round.
SAC_target_update_swapped(p_target, p) ==
    Term("add", <<>>,
         <<Term("mul", <<"polyak">>, <<p>>),
           Term("mul", <<"1 - polyak">>, <<p_target>>)>>)

\* lines 193-194: p_target.data.mul_(polyak), then
\* p_target.data.add_((1 - polyak) * p.data).
SAC_target_update(p_target, p) ==
    Term("add", <<>>,
         <<Term("mul", <<"polyak">>, <<p_target>>),
           Term("mul", <<"1 - polyak">>, <<p>>)>>)

\* The trainer: where take_gradient_step is (pc), the loop index i,
\* a_steps and grad_clip, the parameters, their gradient buffers and
\* requires_grad flags, the modes of the critic and the agent, and the
\* calls made so far (log).
Sac(spc, i, a_steps, grad_clip, params, grad, requires_grad, mode, log) ==
    [pc |-> spc, i |-> i, a_steps |-> a_steps, grad_clip |-> grad_clip,
     params |-> params, grad |-> grad, requires_grad |-> requires_grad,
     mode |-> mode, log |-> log]

\* __init__, lines 83-90: the target is a deep copy of the critic, with
\* no parameter requiring grad.
SacInitial(a_steps, grad_clip, grad, mode) ==
    Sac("idle", 0, a_steps, grad_clip,
        [p \in SacParams |-> IF p = "agent" THEN Param("SAC", "agent", 0)
                             ELSE Param("SAC", "critic", 0)],
        grad,
        [p \in SacParams |-> p # "target"],
        mode, <<>>)

NoSac ==
    SacInitial(0, "None", [p \in SacParams |-> <<>>],
               [m \in {"critic", "agent"} |-> "eval"])

-----------------------------------------------------------------------------
(* CarfollowingReward (src/simulation/reward.py) *)

d_target == 0
min_s_rel == 3
s_rel_penalty == 10
loom_target == 0

\* True is 1 and False is 0 in arithmetic.
Bool(x) == IF x THEN 1 ELSE 0

\* list.index(name) of __init__, for a list holding the name; obs is
\* indexed from 0.
index(feature_names, name) ==
    (CHOOSE i \in 1..Len(feature_names) : feature_names[i] = name) - 1

\* Mutant of CarfollowingReward_f2: the penalty applies at the threshold
\* too.
CarfollowingReward_f2_strict(s_rel) ==
    Bool(s_rel > min_s_rel) * 0 - s_rel_penalty * Bool(s_rel <= min_s_rel)

\* __call__, line 27.
CarfollowingReward_f2(s_rel) ==
    Bool(s_rel >= min_s_rel) * 0 - s_rel_penalty * Bool(s_rel < min_s_rel)

\* __call__, lines 21-30, of a reward built with feature_names: the
\* features and their sum.
CarfollowingReward_call(feature_names, obs, ctl) ==
    LET d == obs[index(feature_names, "ego_d") + 1]
        s_rel == obs[index(feature_names, "lv_s_rel") + 1]
        loom_s == obs[index(feature_names, "lv_inv_tau") + 1]
        f1 == -((d - d_target) * (d - d_target))
        f2 == CarfollowingReward_f2(s_rel)
        f3 == -((loom_s - loom_target) * (loom_s - loom_target))
    IN [f1 |-> f1, f2 |-> f2, f3 |-> f3, r |-> f1 + f2 + 10 * f3]

\* The calls of one reward object: its feature names, the caller's
\* observation and control of the last call and what it returned (out),
\* and those of the call before it (last).
Rwd(op, feature_names, obs, ctl, out, last) ==
    [op |-> op, feature_names |-> feature_names, obs |-> obs, ctl |-> ctl,
     out |-> out, last |-> last]

NoRwd == Rwd("start", <<>>, <<>>, <<>>, <<>>, <<>>)

NoCall == [cls |-> "", args |-> <<>>, pc |-> "idle", frame |-> NoFrame,
           ret |-> <<>>, theta |-> Theta0, detach |-> FALSE]

forward_enter(c, a) ==
    CASE c = "QMDPLayer" -> QMDPLayer_forward_enter(a)
      [] c = "QMDPLayer2" -> QMDPLayer2_forward_enter(a)
      [] c = "HyperQMDPLayer" -> HyperQMDPLayer_forward_enter(a)

forward_body(c, a, f) ==
    CASE c = "QMDPLayer" -> QMDPLayer_forward_body(a, f)
      [] c = "QMDPLayer2" -> QMDPLayer2_forward_body(a, f)
      [] c = "HyperQMDPLayer" -> HyperQMDPLayer_forward_body(a, f)

forward_return(c, f) ==
    CASE c = "QMDPLayer" -> QMDPLayer_forward_return(f)
      [] c = "QMDPLayer2" -> QMDPLayer2_forward_return(f)
      [] c = "HyperQMDPLayer" -> HyperQMDPLayer_forward_return(f)

Init ==
    /\ theta = Theta0
    /\ horizon \in 1..MaxH
    /\ detach \in BOOLEAN
    /\ phase = "first"
    /\ cls = ""
    /\ args = <<>>
    /\ pc = "idle"
    /\ frame = NoFrame
    /\ ret = <<>>
    /\ prev = NoCall
    /\ num = NoNum
    /\ sac = NoSac
    /\ rwd = NoRwd

\* layer(...) is called: forward is entered with arguments a.
Invoke(c, a) ==
    /\ pc = "idle"
    /\ cls' = c
    /\ args' = a
    /\ pc' = "called"
    /\ frame' = NoFrame
    /\ ret' = <<>>
    /\ UNCHANGED <<horizon, prev, num, sac, rwd>>

\* The first call: any class, any arguments.
Call ==
    /\ phase = "first"
    /\ \E c \in Classes : \E a \in Arguments(c) : Invoke(c, a)
    /\ UNCHANGED <<theta, detach, phase>>

\* forward up to its loop.
Enter ==
    /\ pc = "called"
    /\ frame' = forward_enter(cls, args)
    /\ pc' = IF frame'.exc # "" THEN "error" ELSE "loop"
    /\ UNCHANGED <<theta, horizon, detach, phase, cls, args, ret, prev, num, sac, rwd>>

\* One iteration of forward's loop.
Step ==
    /\ pc = "loop"
    /\ frame.t < frame.T
    /\ frame' = forward_body(cls, args, frame)
    /\ pc' = IF frame'.exc # "" THEN "error" ELSE "loop"
    /\ UNCHANGED <<theta, horizon, detach, phase, cls, args, ret, prev, num, sac, rwd>>

\* forward stacks its lists and returns.
Return ==
    /\ pc = "loop"
    /\ frame.t = frame.T
    /\ ret' = forward_return(cls, frame)
    /\ pc' = "done"
    /\ UNCHANGED <<theta, horizon, detach, phase, cls, args, frame, prev, num, sac, rwd>>

\* The first call has ended: the caller keeps what it passed and what it got.
Finish ==
    /\ phase = "first"
    /\ pc \in {"done", "error"}
    /\ prev' = [cls |-> cls, args |-> args, pc |-> pc, frame |-> frame,
                ret |-> ret, theta |-> theta, detach |-> detach]
    /\ phase' = "second"
    /\ pc' = "idle"
    /\ UNCHANGED <<theta, horizon, detach, cls, args, frame, ret, num, sac, rwd>>

\* The second call passes the belief (and plan) of init_hidden() and the
\* action log-likelihoods left-padded with zeros, where the first passed
\* no belief.
CallExplicit ==
    /\ phase = "second"
    /\ prev.pc = "done"
    /\ prev.cls \in {"QMDPLayer", "QMDPLayer2"}
    /\ prev.args.b = None
    /\ LET padded == torch_cat(torch_zeros(1, <<prev.args.batch_size, "act_dim">>),
                               prev.args.logp_u)
       IN Invoke(prev.cls,
                 IF prev.cls = "QMDPLayer"
                 THEN [prev.args EXCEPT !.b = QMDPLayer_init_hidden,
                                        !.logp_u = padded]
                 ELSE [prev.args EXCEPT !.b = QMDPLayer2_init_hidden[1],
                                        !.pi = QMDPLayer2_init_hidden[2],
                                        !.logp_u = padded])
    /\ UNCHANGED <<theta, detach, phase>>

\* The second call differs from the first in one entry of one evidence
\* sequence.
CallOtherEvidence ==
    /\ phase = "second"
    /\ \E name \in {"logp_o", "logp_u"} :
         /\ prev.args[name] # None
         /\ \E s \in 0..(len(prev.args[name]) - 1) :
              Invoke(prev.cls,
                     [prev.args EXCEPT ![name] =
                        torch_stack(set(Kids(prev.args[name]), s, Input(name, s, 1)))])
    /\ UNCHANGED <<theta, detach, phase>>

\* The second call differs from the first in the reward tensor.
CallOtherReward ==
    /\ phase = "second"
    /\ Invoke(prev.cls, [prev.args EXCEPT !.reward = Input("reward", 0, 1)])
    /\ UNCHANGED <<theta, detach, phase>>

\* The optimizer changes tau (the hypernetwork's _tau) between the calls;
\* the arguments are those of the first call.
CallOtherTau ==
    /\ phase = "second"
    /\ LET n == IF prev.cls = "HyperQMDPLayer" THEN "_tau" ELSE "tau"
       IN theta' = [theta EXCEPT ![prev.cls][n] = Param(prev.cls, n, 1)]
    /\ Invoke(prev.cls, prev.args)
    /\ UNCHANGED <<detach, phase>>

\* The first call was to a HyperQMDPLayer with a belief and a plan; the
\* second is to a QMDPLayer2 whose parameters hold the tensors the
\* hypernetwork produced from z, with the same evidence, belief and plan.
CallVariantB ==
    /\ phase = "second"
    /\ prev.cls = "HyperQMDPLayer"
    /\ prev.args.b # None
    /\ LET m == prev.theta.HyperQMDPLayer
           z == prev.args.z
       IN theta' = [theta EXCEPT
             !.QMDPLayer2.u = torch_view(nn_Linear(m._u, z), <<-1, "rank", "state_dim">>),
             !.QMDPLayer2.v = torch_view(nn_Linear(m._v, z), <<-1, "rank", "state_dim">>),
             !.QMDPLayer2.w = torch_view(nn_Linear(m._w, z), <<-1, "rank", "act_dim">>),
             !.QMDPLayer2.tau = nn_Linear(m._tau, z)]
    /\ Invoke("QMDPLayer2", [prev.args EXCEPT !.z = None])
    /\ UNCHANGED <<detach, phase>>

\* The second call is to the QMDPLayer with self.detach flipped, the
\* parameters and the arguments being those of the first call.
CallOtherDetach ==
    /\ phase = "second"
    /\ prev.cls = "QMDPLayer"
    /\ detach' = ~detach
    /\ Invoke(prev.cls, prev.args)
    /\ UNCHANGED <<theta, phase>>

Next ==
    \/ Call
    \/ Enter
    \/ Step
    \/ Return
    \/ Finish
    \/ CallExplicit
    \/ CallOtherEvidence
    \/ CallOtherReward
    \/ CallOtherTau
    \/ CallVariantB
    \/ CallOtherDetach

Spec == Init /\ [][Next]_vars

-----------------------------------------------------------------------------
(* The entries of the tensors: one batch entry, two states, two actions *)

\* Factor tensors u, v, w of rank 2 (entries in units of log(2) once
\* multiplied), as the optimizer may have left them.
Factors == { << <<1, 0>>, <<0, 1>> >>, << <<1, 1>>, <<0, -1>> >>,
             << <<0, 0>>, <<0, 0>> >> }

\* The exponentials of finite log-likelihoods or logits over two entries.
Weights == { <<Big(1), Big(1)>>, <<Big(1), Big(3)>> }

\* The exponentials of the logits einsum("ni, hnki -> hnk", b, value) of a
\* plan over H horizons.
Logits(H) == { [h \in 1..H |-> IF h = k THEN <<Big(2), Big(1)>> ELSE w] :
                 k \in 0..H, w \in Weights }

\* Values of the parameter tau, or of _tau(z), in units of log(10): below,
\* inside and above the range of the clip.
Taus == -8..5

\* Rates of a Poisson kernel: the powers of ten of the clipped range and
\* the halves up to 4.
Rates == {Real(1, 1, n) : n \in -6..3} \cup {Real(m, 2, 0) : m \in 1..8}

\* The evidence of a timestep, as exponentials: <<logp_o[t], logp_u[t]>>.
Evidence == { << <<Big(1), Big(1)>>, <<Big(1), Big(3)>> >>,
              << <<Big(1), Big(3)>>, <<Big(2), Big(1)>> >> }

\* The logits of the plans of a sequence of timesteps.
StepLogits(H) == [h \in 1..H |-> <<Big(h), Big(3)>>]

\* What the methods below leave alone: the layers and the calls.
layers == <<theta, horizon, detach, phase, cls, args, pc, frame, ret, prev>>

NumInit ==
    /\ theta = Theta0
    /\ horizon \in 1..MaxH
    /\ detach = FALSE
    /\ phase = "first"
    /\ cls = ""
    /\ args = <<>>
    /\ pc = "idle"
    /\ frame = NoFrame
    /\ ret = <<>>
    /\ prev = NoCall
    /\ num = NoNum
    /\ sac = NoSac
    /\ rwd = NoRwd

\* transition (compute_transition), for any factors.
NumTransition ==
    /\ num.op = "start"
    /\ \E u \in Factors, v \in Factors, w \in Factors :
         num' = [num EXCEPT !.op = "transition",
                            !.transition = transition_value(u, v, w)]
    /\ UNCHANGED <<layers, sac, rwd>>

\* One plan call: the rate from tau, the kernel, the plan.
NumPlanOf(n, tau, logits) ==
    LET rate == plan_rate_value(tau)
        kernel == poisson_pdf_value(rate, horizon)
    IN [n EXCEPT !.tau = tau, !.rate = rate, !.kernel = kernel,
                 !.pi = plan_value(logits, kernel)]

\* init_hidden of a layer of class c: of QMDPLayer and QMDPLayer2 before
\* the loop, of HyperQMDPLayer as step 0 of the loop, which plans too.
NumInitHidden ==
    /\ num.op = "transition"
    /\ \E c \in Classes : \E b0 \in Weights, w \in Weights :
         num' = CASE c = "QMDPLayer" ->
                       [num EXCEPT !.op = "init_hidden", !.cls = c, !.a0 = w,
                                   !.b = QMDPLayer_init_hidden_value(b0)]
                  [] c = "QMDPLayer2" ->
                       [num EXCEPT !.op = "init_hidden", !.cls = c, !.a0 = w,
                                   !.b = QMDPLayer_init_hidden_value(b0),
                                   !.pi = softmax_value(w)]
                  [] c = "HyperQMDPLayer" ->
                       [NumPlanOf(num, num.tau, StepLogits(horizon)) EXCEPT
                           !.op = "init_hidden", !.cls = c, !.t = 1,
                           !.b = HyperQMDPLayer_init_hidden_value(b0, w)]
    /\ UNCHANGED <<layers, sac, rwd>>

\* One iteration of forward's loop: update_action, update_belief, plan.
NumStep ==
    /\ num.op \in {"init_hidden", "step"}
    /\ num.t < MaxT
    /\ \E e \in Evidence :
         LET a == IF num.cls = "QMDPLayer"
                  THEN QMDPLayer_update_action_value(num.a0, e[2])
                  ELSE QMDPLayer2_update_action_value(e[2], num.pi)
             b == update_belief_value(e[1], a, num.b, num.transition)
         IN num' = [NumPlanOf(num, num.tau, StepLogits(horizon)) EXCEPT
                       !.op = "step", !.a = a, !.b = b, !.t = @ + 1]
    /\ UNCHANGED <<layers, sac, rwd>>

\* plan, for any tau and any logits.
NumPlan ==
    /\ num.op = "start"
    /\ \E tau \in Taus : \E logits \in Logits(horizon) :
         num' = [NumPlanOf(num, tau, logits) EXCEPT !.op = "plan"]
    /\ UNCHANGED <<layers, sac, rwd>>

\* poisson_pdf, over an increasing sweep of rates.
NumPoisson ==
    /\ num.op \in {"start", "poisson"}
    /\ \E rate \in Rates :
         /\ num.op = "poisson" => RealLe(num.rate, rate)
         /\ num' = [num EXCEPT
                      !.op = "poisson", !.rate = rate,
                      !.kernel = poisson_pdf_value(rate, horizon),
                      !.below = IF num.op = "poisson"
                                THEN argmax_value(num.kernel) ELSE 1]
    /\ UNCHANGED <<layers, sac, rwd>>

NumNext ==
    \/ NumTransition
    \/ NumInitHidden
    \/ NumStep
    \/ NumPlan
    \/ NumPoisson

NumSpec == NumInit /\ [][NumNext]_vars

-----------------------------------------------------------------------------
(* SAC.take_gradient_step, one call *)

\* What forward's and the tensor entries' variables hold while the
\* trainer or the reward runs.
LayersInit ==
    /\ theta = Theta0
    /\ horizon = 1
    /\ detach = FALSE
    /\ phase = "first"
    /\ cls = ""
    /\ args = <<>>
    /\ pc = "idle"
    /\ frame = NoFrame
    /\ ret = <<>>
    /\ prev = NoCall
    /\ num = NoNum

\* The gradient buffers when take_gradient_step is called: empty, or
\* holding what an earlier backward() left.  The target's parameters
\* require no grad and hold none.
StaleGrads ==
    { [p \in SacParams |-> IF p \in ps THEN <<Grad("stale", -1, <<>>)>> ELSE <<>>] :
        ps \in SUBSET {"critic", "agent"} }

Modes == [{"critic", "agent"} -> {"train", "eval"}]

\* A call made by take_gradient_step: the method, the iteration, the
\* gradient buffer an optimizer step applied, the parameters after it.
SacEv(op, i, applied, params) == <<op, i, applied, params>>

SacInit ==
    /\ LayersInit
    /\ rwd = NoRwd
    /\ sac \in { SacInitial(n, c, g, m) :
                   n \in 0..MaxASteps, c \in {"None", "1.0"},
                   g \in StaleGrads, m \in Modes }

\* lines 160-164: critic.train(), agent.train().
SacTakeGradientStep ==
    /\ sac.pc = "idle"
    /\ sac' = [sac EXCEPT !.pc = "loop", !.i = 0,
                          !.mode = [m \in {"critic", "agent"} |-> "train"]]
    /\ UNCHANGED <<layers, num, rwd>>

\* lines 167-168: critic_loss.backward().
SacCriticBackward ==
    /\ sac.pc = "loop"
    /\ sac.i < sac.a_steps
    /\ LET grad == backward(sac.grad, sac.requires_grad, "critic_loss", sac.i,
                            critic_loss_graph)
       IN sac' = [sac EXCEPT !.pc = "critic_step", !.grad = grad,
                    !.log = Append(@, SacEv("critic_backward", sac.i, <<>>, sac.params))]
    /\ UNCHANGED <<layers, num, rwd>>

\* lines 169-173: the clipping, critic_optimizer.step(), the two
\* zero_grad().
SacCriticStep ==
    /\ sac.pc = "critic_step"
    /\ LET g == clip_grad_norm(sac.grad, critic_optimizer_params, sac.grad_clip)
           params == optimizer_step(sac.params, g, critic_optimizer_params)
       IN sac' = [sac EXCEPT !.pc = "actor", !.params = params,
                    !.grad = SAC_critic_zero_grads(g),
                    !.log = Append(@, SacEv("critic_step", sac.i, g.critic, params))]
    /\ UNCHANGED <<layers, num, rwd>>

\* lines 178-179: actor_loss.backward().
SacActorBackward ==
    /\ sac.pc = "actor"
    /\ LET grad == backward(sac.grad, sac.requires_grad, "actor_loss", sac.i,
                            actor_loss_graph)
       IN sac' = [sac EXCEPT !.pc = "actor_step", !.grad = grad,
                    !.log = Append(@, SacEv("actor_backward", sac.i, <<>>, sac.params))]
    /\ UNCHANGED <<layers, num, rwd>>

\* lines 180-184: the clipping, actor_optimizer.step(), the two
\* zero_grad().
SacActorStep ==
    /\ sac.pc = "actor_step"
    /\ LET g == clip_grad_norm(sac.grad, actor_optimizer_params, sac.grad_clip)
           params == optimizer_step(sac.params, g, actor_optimizer_params)
       IN sac' = [sac EXCEPT !.pc = "target", !.params = params,
                    !.grad = SAC_actor_zero_grads(g),
                    !.log = Append(@, SacEv("actor_step", sac.i, g.agent, params))]
    /\ UNCHANGED <<layers, num, rwd>>

\* lines 189-194: the target update, which ends iteration i.
SacTargetUpdate ==
    /\ sac.pc = "target"
    /\ LET params == [sac.params EXCEPT
                        !.target = SAC_target_update(sac.params.target,
                                                     sac.params.critic)]
       IN sac' = [sac EXCEPT !.pc = "loop", !.i = @ + 1, !.params = params,
                    !.log = Append(@, SacEv("target_update", sac.i, <<>>, params))]
    /\ UNCHANGED <<layers, num, rwd>>

\* lines 202-208: critic.eval(), agent.eval(), return stats.
SacReturn ==
    /\ sac.pc = "loop"
    /\ sac.i = sac.a_steps
    /\ sac' = [sac EXCEPT !.pc = "returned",
                          !.mode = [m \in {"critic", "agent"} |-> "eval"]]
    /\ UNCHANGED <<layers, num, rwd>>

SacNext ==
    \/ SacTakeGradientStep
    \/ SacCriticBackward
    \/ SacCriticStep
    \/ SacActorBackward
    \/ SacActorStep
    \/ SacTargetUpdate
    \/ SacReturn

SacSpec == SacInit /\ [][SacNext]_vars

-----------------------------------------------------------------------------
(* CarfollowingReward, called twice on one observation *)

\* The feature lists a reward is built with.
FeatureNames ==
    { <<"ego_d", "lv_s_rel", "lv_inv_tau">>,
      <<"lv_inv_tau", "ego_d", "lv_s_rel">>,
      <<"ego_ds", "lv_s_rel", "ego_d", "lv_inv_tau">> }

\* The entries of an observation: below, at and above min_s_rel, zero and
\* negative.
ObsValues == {-2, 0, 2, 3, 4}
Observations(n) == [1..n -> ObsValues]
Controls == {<<0>>, <<1>>}

RwdInit ==
    /\ LayersInit
    /\ sac = NoSac
    /\ rwd = NoRwd

\* __init__ and a first __call__.  The method works on
\* obs.flatten().clone(): the caller's obs is left as it was passed.
RwdCall ==
    /\ rwd.op = "start"
    /\ \E names \in FeatureNames :
         \E obs \in Observations(Len(names)) : \E ctl \in Controls :
           rwd' = Rwd("call", names, obs, ctl,
                      CarfollowingReward_call(names, obs, ctl), <<>>)
    /\ UNCHANGED <<layers, num, sac>>

\* A second __call__ on the caller's observation, with another control.
RwdCallOtherCtl ==
    /\ rwd.op = "call"
    /\ \E ctl \in Controls \ {rwd.ctl} :
         rwd' = Rwd("again", rwd.feature_names, rwd.obs, ctl,
                    CarfollowingReward_call(rwd.feature_names, rwd.obs, ctl),
                    [obs |-> rwd.obs, ctl |-> rwd.ctl, out |-> rwd.out])
    /\ UNCHANGED <<layers, num, sac>>

RwdNext ==
    \/ RwdCall
    \/ RwdCallOtherCtl

RwdSpec == RwdInit /\ [][RwdNext]_vars

-----------------------------------------------------------------------------
(* The claims *)

A == "QMDPLayer"
B == "QMDPLayer2"
C == "HyperQMDPLayer"

\* The belief sequence and the plan sequence among the values forward of
\* class c returned as r.
Beliefs(c, r) == Kids(IF c = B THEN r[2] ELSE r[1])
Plans(c, r) == Kids(IF c = B THEN r[3] ELSE r[2])

\* The positions in the list of calls of the cell steps of timestep t: an
\* update_cell, or the init_hidden of HyperQMDPLayer's loop.
StepsAt(f, t) ==
    {i \in 1..Len(f.calls) :
        EvT(f.calls[i]) = t /\ EvOp(f.calls[i]) \in {"update_cell", "init_hidden"}}
PlansAt(f, t) ==
    {i \in 1..Len(f.calls) : EvT(f.calls[i]) = t /\ EvOp(f.calls[i]) = "plan"}
CallsOf(f, op) == {i \in 1..Len(f.calls) : EvOp(f.calls[i]) = op}

\* The belief posterior a cell step of class c produced.
StepBelief(c, e) ==
    IF EvOp(e) = "update_cell" /\ c = B THEN EvOuts(e)[2] ELSE EvOuts(e)[1]

\* The second call passes explicitly what the first, given no belief,
\* derived: the belief (and plan) of init_hidden() and the action
\* log-likelihoods left-padded with one all-zero entry.
ExplicitPair ==
    /\ phase = "second"
    /\ pc \in {"done", "error"}
    /\ prev.pc = "done"
    /\ cls = prev.cls
    /\ cls \in {A, B}
    /\ theta = prev.theta
    /\ prev.args.b = None
    /\ args.logp_o = prev.args.logp_o
    /\ args.reward = prev.args.reward
    /\ args.batch_size = prev.args.batch_size
    /\ args.logp_u = torch_cat(torch_zeros(1, <<args.batch_size, "act_dim">>),
                               prev.args.logp_u)
    /\ IF cls = A THEN args.b = QMDPLayer_init_hidden
       ELSE /\ args.b = QMDPLayer2_init_hidden[1]
            /\ args.pi = QMDPLayer2_init_hidden[2]

\* C1: forward of QMDPLayer and of QMDPLayer2 called with no belief returns
\* a belief sequence of length T, and a call that passes init_hidden()'s
\* belief (and plan) and the zero-padded action log-likelihoods returns
\* the same sequences as the call with no belief did.
C1_BootstrapEquivalence ==
    /\ (pc = "done" /\ cls \in {A, B} /\ args.b = None)
          => Len(Beliefs(cls, ret)) = len(args.logp_o)
    /\ ExplicitPair =>
          /\ pc = "done"
          /\ ret = prev.ret
          /\ Len(Beliefs(cls, ret)) = len(args.logp_o)

C1_Witness ==
    /\ ExplicitPair
    /\ pc = "done"
    /\ cls = B
    /\ len(args.logp_o) >= 2

\* C2: forward of every class returns sequences of exactly T entries; entry
\* t of the belief sequence is the posterior of the one cell step of
\* timestep t, which consumed logp_o[t]; the steps ran in time order; and
\* the seed belief and the seed plan are no entry of a returned sequence.
C2_OutputSequences ==
    pc = "done" =>
      LET T == len(args.logp_o)
          bs == Beliefs(cls, ret)
          ps == Plans(cls, ret)
      IN /\ Len(bs) = T
         /\ Len(ps) = T
         /\ cls = B => len(ret[1]) = T
         /\ \A t \in 0..(T - 1) :
              /\ Cardinality(StepsAt(frame, t)) = 1
              /\ \A i \in StepsAt(frame, t) :
                   /\ EvIns(frame.calls[i])[1] = getitem(args.logp_o, t)
                   /\ StepBelief(cls, frame.calls[i]) = bs[t + 1]
                   /\ \A j \in StepsAt(frame, t + 1) : i < j
              /\ bs[t + 1] # frame.b
              /\ ps[t + 1] # frame.pi

C2_Witness ==
    /\ pc = "done"
    /\ cls = C
    /\ args.b = None
    /\ len(args.logp_o) >= 2

\* C3: in every class, forward builds the transition tensor once and runs
\* compute_value once, both before the first timestep; the Q-values the
\* loop holds are those compute_value returned, at every timestep and at
\* the end, and every plan call reads them.
C3_ValueIterationOnce ==
    pc \in {"loop", "done", "error"} =>
      LET cs == frame.calls
      IN /\ Cardinality(CallsOf(frame, "transition")) = 1
         /\ Cardinality(CallsOf(frame, "compute_value")) = 1
         /\ \A i \in CallsOf(frame, "compute_value") :
              /\ EvIns(cs[i]) = <<frame.transition, args.reward>>
              /\ EvOuts(cs[i]) = <<frame.value>>
              /\ \A j \in CallsOf(frame, "transition") :
                   j < i /\ EvOuts(cs[j]) = <<frame.transition>>
              /\ \A j \in 1..Len(cs) : EvT(cs[j]) >= 0 => i < j
         /\ \A i \in CallsOf(frame, "plan") :
              EvIns(cs[i])[Len(EvIns(cs[i]))] = frame.value

C3_Witness ==
    /\ pc = "done"
    /\ cls = B
    /\ len(args.logp_o) >= 2
    /\ Cardinality(CallsOf(frame, "plan")) >= 2

\* Two completed calls of QMDPLayer.forward on the same parameters and
\* detach flag, with the same initial belief, reward and number of
\* observations.
CausalPair ==
    /\ phase = "second"
    /\ pc = "done"
    /\ prev.pc = "done"
    /\ cls = A
    /\ prev.cls = A
    /\ theta = prev.theta
    /\ detach = prev.detach
    /\ args.b = prev.args.b
    /\ args.reward = prev.args.reward
    /\ args.batch_size = prev.args.batch_size
    /\ len(args.logp_o) = len(prev.args.logp_o)

\* x and y agree at the indices 0..t.
SameUpTo(x, y, t) == \A s \in 0..t : getitem(x, s) = getitem(y, s)

SameOutputAt(t) ==
    /\ Beliefs(A, ret)[t + 1] = Beliefs(A, prev.ret)[t + 1]
    /\ Plans(A, ret)[t + 1] = Plans(A, prev.ret)[t + 1]

\* C4: QMDPLayer.forward is causal.  Two calls that agree on logp_o[0..t]
\* and on the aligned action log-likelihoods at the indices 0..t return the
\* same belief and plan at index t, whatever they pass at later indices;
\* and with no initial belief, it is enough that the callers' logp_u agree
\* at the indices 0..t-1.
C4_Causal ==
    CausalPair =>
      \A t \in 0..(len(args.logp_o) - 1) :
        /\ ( /\ SameUpTo(args.logp_o, prev.args.logp_o, t)
             /\ SameUpTo(frame.logp_u, prev.frame.logp_u, t) ) => SameOutputAt(t)
        /\ ( /\ args.b = None
             /\ SameUpTo(args.logp_o, prev.args.logp_o, t)
             /\ SameUpTo(args.logp_u, prev.args.logp_u, t - 1) ) => SameOutputAt(t)

C4_Witness ==
    /\ CausalPair
    /\ args.b = None
    /\ len(args.logp_o) >= 2
    /\ getitem(args.logp_u, 0) # getitem(prev.args.logp_u, 0)
    /\ SameOutputAt(0)
    /\ ~SameOutputAt(1)

\* Two completed calls of QMDPLayer.forward that differ at most in the
\* reward tensor and in the parameter tau.
RewardTauPair ==
    /\ phase = "second"
    /\ pc = "done"
    /\ prev.pc = "done"
    /\ cls = A
    /\ prev.cls = A
    /\ args = [prev.args EXCEPT !.reward = args.reward]
    /\ theta = [prev.theta EXCEPT !.QMDPLayer.tau = theta.QMDPLayer.tau]

\* C5: in QMDPLayer.forward the action posterior of every step, the one
\* its belief update consumes, is softmax(a0 + logp_u[t]); and two calls
\* that differ only in the reward or in tau return the same belief
\* sequence.
C5_PlanNotFedBack ==
    /\ (cls = A /\ pc \in {"loop", "done"}) =>
          \A i \in CallsOf(frame, "update_cell") :
            EvIns(frame.calls[i])[2] =
               torch_softmax(torch_add(theta.QMDPLayer.a0,
                                       getitem(frame.logp_u, EvT(frame.calls[i]))), -1)
    /\ RewardTauPair => Beliefs(A, ret) = Beliefs(A, prev.ret)

C5_Witness ==
    /\ RewardTauPair
    /\ args.reward # prev.args.reward
    /\ len(args.logp_o) >= 2
    /\ Plans(A, ret)[2] # Plans(A, prev.ret)[2]
    /\ Beliefs(A, ret) = Beliefs(A, prev.ret)

\* C6: in QMDPLayer.forward the plan of step t is computed right after the
\* belief update of step t, from the posterior that update produced (as it
\* is, or detached), which is the belief at output index t, and not from
\* the belief that entered the step; it is the plan at output index t.
C6_PlanFromPosterior ==
    (cls = A /\ pc \in {"loop", "done", "error"}) =>
      LET cs == frame.calls
      IN /\ \A t \in 0..(frame.t - 1) : Cardinality(PlansAt(frame, t)) = 1
         /\ \A i \in CallsOf(frame, "plan") :
              LET t == EvT(cs[i])
                  post == at(frame.alpha_b, t + 1)
                  prior == at(frame.alpha_b, t)
              IN /\ i > 1
                 /\ EvOp(cs[i - 1]) = "update_cell"
                 /\ EvT(cs[i - 1]) = t
                 /\ EvOuts(cs[i - 1]) = <<post>>
                 /\ EvIns(cs[i - 1])[3] = prior
                 /\ EvIns(cs[i])[1] = (IF detach THEN data(post) ELSE post)
                 /\ EvIns(cs[i])[1] \notin {prior, data(prior)}
                 /\ EvOuts(cs[i]) = <<at(frame.alpha_pi, t)>>
                 /\ pc = "done" =>
                      /\ Beliefs(A, ret)[t + 1] = post
                      /\ Plans(A, ret)[t + 1] = at(frame.alpha_pi, t)

C6_Witness ==
    /\ cls = A
    /\ pc = "done"
    /\ len(args.logp_o) >= 2
    /\ plan_args(Plans(A, ret)[2])[1] = Beliefs(A, ret)[2]

\* C7: in QMDPLayer2.forward step t computes the action posterior from
\* logp_u[t] and the plan of step t-1 (the seed plan at t = 0), then the
\* belief posterior from logp_o[t], that action posterior and the belief of
\* step t-1 (the seed belief at t = 0), then the plan from that belief
\* posterior; that plan is the prior of step t+1.
C7_ClosedLoop ==
    (cls = B /\ pc \in {"loop", "done", "error"}) =>
      LET cs == frame.calls
      IN /\ \A t \in 0..(frame.t - 1) :
              Cardinality(StepsAt(frame, t)) = 1 /\ Cardinality(PlansAt(frame, t)) = 1
         /\ \A i \in CallsOf(frame, "update_cell") :
              LET t == EvT(cs[i])
                  in == EvIns(cs[i])
                  a_post == EvOuts(cs[i])[1]
                  b_post == EvOuts(cs[i])[2]
              IN /\ in[1] = getitem(args.logp_o, t)
                 /\ in[2] = getitem(frame.logp_u, t)
                 /\ in[3] = at(frame.alpha_pi, t)
                 /\ in[4] = at(frame.alpha_b, t)
                 /\ t = 0 => in[3] = frame.pi /\ in[4] = frame.b
                 /\ t >= 1 =>
                      /\ \A j \in PlansAt(frame, t - 1) :
                           j = i - 1 /\ EvOuts(cs[j]) = <<in[3]>>
                      /\ \A j \in StepsAt(frame, t - 1) : EvOuts(cs[j])[2] = in[4]
                 /\ a_post = QMDPLayer2_update_action(in[2], in[3])
                 /\ b_post = QMDPLayer2_update_belief(in[1], a_post, in[4], in[5])
                 /\ \A j \in PlansAt(frame, t) :
                      /\ j = i + 1
                      /\ EvIns(cs[j])[1] = b_post
                      /\ EvOuts(cs[j]) = <<at(frame.alpha_pi, t + 1)>>

C7_Witness ==
    /\ cls = B
    /\ pc = "done"
    /\ len(args.logp_o) >= 2
    /\ args.b = None

\* A completed call of HyperQMDPLayer.forward and a completed call of
\* QMDPLayer2.forward with the same evidence, the same initial belief and
\* plan, the same transition tensor, Q-values and Poisson kernel.
VariantPair ==
    /\ phase = "second"
    /\ pc = "done"
    /\ prev.pc = "done"
    /\ prev.cls = C
    /\ cls = B
    /\ args.logp_o = prev.args.logp_o
    /\ args.logp_u = prev.args.logp_u
    /\ args.b = prev.args.b
    /\ args.pi = prev.args.pi
    /\ args.b # None
    /\ args.pi # None
    /\ frame.transition = prev.frame.transition
    /\ frame.value = prev.frame.value
    /\ QMDPLayer2_plan_tau = HyperQMDPLayer_plan_tau(prev.args.z)

\* C8: given the same transition tensor, Q-values, Poisson kernel and
\* evidence and an explicit initial belief and plan, HyperQMDPLayer.forward
\* and QMDPLayer2.forward return the same belief sequence and the same plan
\* sequence.
C8_SameRecurrence ==
    VariantPair =>
      /\ Beliefs(B, ret) = Beliefs(C, prev.ret)
      /\ Plans(B, ret) = Plans(C, prev.ret)

C8_Witness ==
    /\ VariantPair
    /\ len(args.logp_o) >= 2

\* C9: in HyperQMDPLayer.forward with no initial belief, step 0 is
\* init_hidden and nothing else: it folds logp_o[0] into the prior belief
\* the hypernetwork derives from z and plans from the result, with no
\* transition, no action log-likelihood and no use of the initial plan
\* passed; every later step is an update_cell on logp_o[t] and the
\* caller's logp_u[t-1]; and init_hidden runs at most once.
C9_InitStep ==
    (cls = C /\ args.b = None /\ pc \in {"loop", "done", "error"}) =>
      LET cs == frame.calls
      IN /\ Cardinality(CallsOf(frame, "init_hidden")) = (IF frame.t >= 1 THEN 1 ELSE 0)
         /\ StepsAt(frame, 0) \subseteq CallsOf(frame, "init_hidden")
         /\ \A i \in CallsOf(frame, "init_hidden") :
              LET b0 == torch_softmax(nn_Linear(theta.HyperQMDPLayer._b0, args.z), -1)
                  b == torch_softmax(
                         torch_add(torch_log(torch_add(b0, eps)),
                                   getitem(args.logp_o, 0)), -1)
              IN /\ EvT(cs[i]) = 0
                 /\ EvIns(cs[i]) = <<getitem(args.logp_o, 0), args.z, frame.value>>
                 /\ EvOuts(cs[i]) = <<b, HyperQMDPLayer_plan(b, args.z, frame.value)>>
                 /\ EvOuts(cs[i]) = <<at(frame.alpha_b, 1), at(frame.alpha_a, 1)>>
         /\ \A i \in CallsOf(frame, "update_cell") :
              LET t == EvT(cs[i])
              IN /\ t >= 1
                 /\ EvIns(cs[i])[1] = getitem(args.logp_o, t)
                 /\ EvIns(cs[i])[2] = getitem(args.logp_u, t - 1)
                 /\ EvIns(cs[i])[4] = at(frame.alpha_b, t)
                 /\ EvIns(cs[i])[5] = at(frame.alpha_a, t)

C9_Witness ==
    /\ cls = C
    /\ args.b = None
    /\ args.pi # None
    /\ pc = "done"
    /\ len(args.logp_o) >= 2
    /\ Cardinality(CallsOf(frame, "update_cell")) >= 1

\* The axis labels of an einsum operand, and the labels an einsum sums
\* over: those of its operands that its result does not keep.
Labels(l) == {l[i] : i \in 1..Len(l)}
Contracted(eq) ==
    UNION {Labels(EqIns(eq)[i]) : i \in 1..Len(EqIns(eq))} \ Labels(EqOut(eq))

\* The positions of the action, source-state and destination-state axes in
\* a transition tensor: the einsum that builds it takes its labels from the
\* last axis of the action, source and sink factors.
AxisOf(transition, factor) ==
    LET teq == Attr(Kids(transition)[1])
        l == EqIns(teq)[factor][Len(EqIns(teq)[factor])]
    IN CHOOSE p \in 1..Len(EqOut(teq)) : EqOut(teq)[p] = l
SourceAxis(transition) == AxisOf(transition, 1)
DestinationAxis(transition) == AxisOf(transition, 2)
ActionAxis(transition) == AxisOf(transition, 3)

Distribution(x) ==
    /\ x[2] # <<>>
    /\ \A i \in 1..Len(x[1]) : BigLe(x[1][i], x[2])
    /\ BigSum(x[1]) = x[2]

\* C11: after any number of timesteps of any variant, for any finite
\* evidence, the belief posterior, the action posterior and the plan are
\* entrywise non-negative and sum to 1 over their axis; the plan, a
\* mixture of per-horizon softmax distributions weighted by the Poisson
\* kernel, sums to 1.
C11_Distributions ==
    num.op \in {"init_hidden", "step", "plan"} =>
      /\ \A x \in {num.b, num.a, num.pi} : x # <<>> => Distribution(x)
      /\ num.op = "step" =>
           /\ Len(num.b[1]) = 2 /\ Len(num.a[1]) = 2 /\ Len(num.pi[1]) = 2
           /\ Len(num.kernel[1]) = horizon
      /\ num.op = "plan" => Len(num.pi[1]) = 2 /\ Len(num.kernel[1]) = horizon

C11_Witness ==
    /\ num.op = "step"
    /\ num.cls = "QMDPLayer2"
    /\ num.t >= 2
    /\ horizon >= 2
    /\ num.b[1][1] # num.b[1][2]
    /\ num.pi[1][1] # num.pi[1][2]

\* C12: for all factor tensors, every row of the transition tensor over
\* the destination-state axis, one per action and source state, has
\* non-negative entries that sum to 1.
C12_TransitionRows ==
    num.transition # <<>> =>
      /\ Len(num.transition) = 2
      /\ \A k \in 1..Len(num.transition) :
           /\ Len(num.transition[k]) = 2
           /\ \A i \in 1..Len(num.transition[k]) :
                /\ Len(num.transition[k][i][1]) = 2
                /\ Distribution(num.transition[k][i])

C12_Witness ==
    /\ num.op = "transition"
    /\ \E k \in 1..2 : \E i \in 1..2 :
         /\ num.transition[k][i][1][1] # num.transition[k][i][1][2]
         /\ num.transition[k][i] # num.transition[k][3 - i]

\* n times 10^d, for d > 0; n for d <= 0.
Tens(n, d) == BigMulAll(n, [i \in 1..d |-> 10])

\* C13: for every rate in [1e-6, 1e3], poisson_pdf(rate, H) is a kernel of
\* length H that sums to 1, whose bins are 1..H (the mass of bin k + 1 is
\* that of bin k times rate / (k + 1)); for a rate of at most 1 the mass
\* off bin 1 is at most the rate, so as the rate goes to 0 the mass
\* concentrates on bin 1; and over an increasing sweep of rates the mode
\* index never decreases.
C13_PoissonKernel ==
    num.op = "poisson" =>
      LET w == num.kernel[1]
          den == num.kernel[2]
          p == num.rate[1]
          q == num.rate[2]
          e == num.rate[3]
      IN /\ RealLe(Real(1, 1, -6), num.rate) /\ RealLe(num.rate, Real(1, 1, 3))
         /\ Len(w) = horizon
         /\ Distribution(num.kernel)
         /\ \A k \in 1..(horizon - 1) :
              Tens(BigMulAll(w[k + 1], <<k + 1, q>>), -e) = Tens(BigMul(w[k], p), e)
         /\ RealLe(num.rate, Real(1, 1, 0)) =>
              /\ argmax_value(num.kernel) = 1
              /\ BigLe(Tens(BigMul(den, q), -e),
                       BigAdd(Tens(BigMul(w[1], q), -e), BigMul(den, p)))
         /\ num.below <= argmax_value(num.kernel)

C13_Witness ==
    /\ num.op = "poisson"
    /\ horizon >= 2
    /\ num.below = 1
    /\ argmax_value(num.kernel) = 2
    /\ num.kernel[1][1] # <<>>

\* C14: on every plan call the rate handed to poisson_pdf is the
\* exponential of tau clipped to [log(1e-6), log(1e3)], so it lies in
\* [1e-6, 1e3] whatever tau is.
C14_RateClipped ==
    (num.op \in {"plan", "step"} \/ (num.op = "init_hidden" /\ num.cls = "HyperQMDPLayer")) =>
      /\ RealLe(Real(1, 1, -6), num.rate)
      /\ RealLe(num.rate, Real(1, 1, 3))
      /\ num.tau < -6 => num.rate = Real(1, 1, -6)
      /\ num.tau > 3 => num.rate = Real(1, 1, 3)
      /\ num.tau \in -6..3 => num.rate = Real(1, 1, num.tau)
      /\ Len(num.kernel[1]) = horizon

C14_Witness ==
    /\ num.op = "plan"
    /\ num.tau > 3
    /\ num.rate = Real(1, 1, 3)
    /\ horizon >= 2

\* Autograd: whether backward() from x reaches p, that is whether p is an
\* operand, at any depth, of the operations that produced x; Tensor.data
\* is a tensor with no history.
RECURSIVE GradPath(_, _)
GradPath(x, p) ==
    \/ x = p
    \/ /\ Op(x) # "data"
       /\ \E i \in 1..Len(Kids(x)) : GradPath(Kids(x)[i], p)

\* The parameters of the QMDPLayer.
QMDPLayerParams == {theta.QMDPLayer[n] : n \in DOMAIN theta.QMDPLayer}

\* The parameters that produced x: those x depends on, gradient or not.
RECURSIVE Producers(_)
Producers(x) ==
    (IF Op(x) = "param" THEN {x} ELSE {})
      \cup UNION {Producers(Kids(x)[i]) : i \in 1..Len(Kids(x))}

ADone == cls = A /\ pc = "done"

\* C15, as stated: with detach enabled, no parameter that produced the
\* belief fed into planning is reached from the plan.
C15_NoPathToBeliefParameters ==
    (ADone /\ detach) =>
      \A t \in 0..(frame.T - 1) :
        \A p \in Producers(at(frame.alpha_b, t + 1)) :
          ~GradPath(at(frame.alpha_pi, t), p)

\* C15, amended: with detach enabled the plan carries no gradient through
\* its belief argument, so a parameter that reaches the plan only through
\* the belief (b0, a0) gets none from a loss on the plan, while u, v and w,
\* which produced the belief too, are reached through the Q-values of a
\* horizon of two or more (those of the horizon 1 are the reward); with
\* detach disabled every parameter that produced the belief is reached
\* from the plan.
C15_Detachment ==
    ADone =>
      \A t \in 0..(frame.T - 1) :
        LET pi == at(frame.alpha_pi, t)
            b == at(frame.alpha_b, t + 1)
        IN /\ detach =>
                /\ plan_args(pi)[1] = data(b)
                /\ \A p \in QMDPLayerParams :
                     GradPath(pi, p) <=>
                       (GradPath(frame.value, p) \/ p = theta.QMDPLayer.tau)
                /\ ~GradPath(pi, theta.QMDPLayer.b0)
                /\ ~GradPath(pi, theta.QMDPLayer.a0)
                /\ \A p \in {theta.QMDPLayer.u, theta.QMDPLayer.v, theta.QMDPLayer.w} :
                     p \in Producers(b) /\ (GradPath(pi, p) <=> horizon >= 2)
           /\ ~detach =>
                \A p \in Producers(b) : GradPath(b, p) /\ GradPath(pi, p)

C15_Witness ==
    /\ ADone
    /\ detach
    /\ frame.T >= 2
    /\ theta.QMDPLayer.b0 \in Producers(at(frame.alpha_b, 2))
    /\ theta.QMDPLayer.a0 \in Producers(at(frame.alpha_b, 2))
    /\ ~GradPath(at(frame.alpha_pi, 1), theta.QMDPLayer.b0)

\* The value a tensor holds, whatever its history: Tensor.data holds the
\* value of its tensor.
RECURSIVE forward_value(_)
forward_value(x) ==
    IF Op(x) = "data" THEN forward_value(Kids(x)[1])
    ELSE Term(Op(x), Attr(x), [i \in 1..Len(Kids(x)) |-> forward_value(Kids(x)[i])])

\* The second call is the first with self.detach flipped.
DetachPair ==
    /\ phase = "second"
    /\ cls = A /\ prev.cls = A
    /\ detach # prev.detach
    /\ args = prev.args
    /\ theta = prev.theta
    /\ pc \in {"done", "error"}

\* C16: for the same parameters and inputs, QMDPLayer.forward with detach
\* enabled and with detach disabled end alike and return the same belief
\* and the same plan value at every index t; only the history of the
\* plan's belief argument differs.
C16_DetachSameValues ==
    DetachPair =>
      /\ pc = prev.pc
      /\ frame.exc = prev.frame.exc
      /\ pc = "done" =>
           /\ Len(Plans(A, ret)) = frame.T
           /\ Beliefs(A, ret) = Beliefs(A, prev.ret)
           /\ \A t \in 1..frame.T :
                /\ forward_value(Plans(A, ret)[t]) = forward_value(Plans(A, prev.ret)[t])
                /\ Plans(A, ret)[t] # Plans(A, prev.ret)[t]

C16_Witness ==
    /\ DetachPair
    /\ pc = "done"
    /\ detach
    /\ frame.T >= 2
    /\ args.b = None
    /\ Plans(A, ret)[2] # Plans(A, prev.ret)[2]

\* The belief (and, in QMDPLayer2, the plan) the running call started
\* from is the supplied seed, or else the prior computed from the
\* parameters (in the HyperQMDPLayer, from them and the first
\* observation): nothing of an earlier call.
SeedFromArguments ==
    pc \in {"loop", "done"} =>
      /\ cls = A =>
           at(frame.alpha_b, 0) = IF args.b = None THEN QMDPLayer_init_hidden ELSE args.b
      /\ cls = B =>
           /\ at(frame.alpha_b, 0) =
                IF args.b = None THEN QMDPLayer2_init_hidden[1] ELSE args.b
           /\ at(frame.alpha_pi, 0) =
                IF args.b = None THEN QMDPLayer2_init_hidden[2] ELSE args.pi
      /\ cls = C =>
           /\ at(frame.alpha_b, 0) = args.b
           /\ (args.b = None /\ frame.t >= 1) =>
                at(frame.alpha_b, 1) =
                  HyperQMDPLayer_init_hidden(getitem(args.logp_o, 0), args.z,
                                             frame.value)[1]
      /\ (phase = "second" /\ prev.pc = "done") =>
           LET x == at(frame.alpha_b, 0)
           IN \A i \in 1..Len(prev.ret) : \A j \in 1..Len(Kids(prev.ret[i])) :
                 /\ x # Kids(prev.ret[i])[j]
                 /\ ~GradPath(x, Kids(prev.ret[i])[j])

\* While forward runs, the parameters, the flags of the layer and the
\* caller's tensors stay as they are.
ForwardWritesNothing ==
    pc \in {"called", "loop"} =>
      /\ theta' = theta
      /\ args' = args
      /\ horizon' = horizon
      /\ detach' = detach
      /\ prev' = prev

\* C17: a forward call of any variant changes no parameter and no tensor
\* of the caller, and starts from the prior or the supplied seed whatever
\* an earlier call processed: no belief or plan is kept between calls.
C17_Frame == []SeedFromArguments /\ [][ForwardWritesNothing]_vars

C17_Witness ==
    /\ phase = "second"
    /\ cls = B /\ prev.cls = B
    /\ prev.pc = "done" /\ pc = "done"
    /\ args.b = None
    /\ frame.T >= 2
    /\ theta = prev.theta
    /\ at(frame.alpha_b, 0) = at(prev.frame.alpha_b, 0)
    /\ at(frame.alpha_b, 1) # at(prev.frame.alpha_b, 1)

\* The second call ran compute_value on the transition tensor and the
\* reward of the first call's.
SameValueArguments ==
    /\ phase = "second"
    /\ cls = prev.cls
    /\ pc \in {"loop", "done", "error"}
    /\ prev.frame.value # None
    /\ frame.transition = prev.frame.transition
    /\ args.reward = prev.args.reward

\* The Q tensor is that of the earlier call, and the arguments are as
\* they were passed.
ValueIsAFunction ==
    /\ SameValueArguments => frame.value = prev.frame.value
    /\ pc \in {"loop", "done"} =>
         \A i \in 1..Len(frame.calls) :
            EvOp(frame.calls[i]) = "compute_value" =>
              /\ EvIns(frame.calls[i]) = <<frame.transition, args.reward>>
              /\ EvOuts(frame.calls[i]) = <<frame.value>>
              /\ Len(Kids(frame.value)) = horizon
              /\ Kids(frame.value)[1] = args.reward

\* The step of forward that calls compute_value changes no layer state
\* and no argument.
ValueWritesNothing ==
    pc = "called" => theta' = theta /\ horizon' = horizon /\ args' = args

DocumentedLength ==
    /\ args.logp_u # None
    /\ IF args.b = None
       THEN len(args.logp_u) \in {len(args.logp_o) - 1, len(args.logp_o)}
       ELSE len(args.logp_u) = len(args.logp_o)

\* C19: in QMDPLayer2 and HyperQMDPLayer the initial plan is optional:
\* forward called without it completes and returns belief and plan
\* sequences of the full length T, whether or not an initial belief is
\* supplied.
C19_PlanOptional ==
    (cls \in {B, C} /\ args.pi = None /\ DocumentedLength /\ pc \in {"done", "error"}) =>
      /\ pc = "done"
      /\ Len(Beliefs(cls, ret)) = len(args.logp_o)
      /\ Len(Plans(cls, ret)) = len(args.logp_o)

\* The slice of action log-likelihoods the update_cell call e of class c
\* consumed: in QMDPLayer the operand of the action posterior a0 + logp_u,
\* in the other two the call's second argument.
LogpURead(c, e) ==
    IF c = A THEN Kids(Kids(EvIns(e)[2])[1])[2] ELSE EvIns(e)[2]

\* C20: for the documented lengths no step indexes the action
\* log-likelihoods out of bounds.  With no initial belief, T - 1 entries
\* suffice for T observations: the call ends without an error, step 0
\* reads none of them and step t >= 1 reads entry t - 1, so the last of T
\* entries is never read; with an initial belief, step t reads entry t of
\* the T.
C20_IndexInBounds ==
    (pc \in {"loop", "done", "error"} /\ DocumentedLength) =>
      LET T == len(args.logp_o)
          n == len(args.logp_u)
          steps == CallsOf(frame, "update_cell")
      IN /\ frame.exc # "IndexError"
         /\ args.b = None => pc # "error"
         /\ \A i \in steps :
              LET t == EvT(frame.calls[i])
                  x == LogpURead(cls, frame.calls[i])
              IN IF args.b # None
                 THEN t < n /\ x = getitem(args.logp_u, t)
                 ELSE IF t = 0
                 THEN cls # C /\ x = Term("zeros", <<args.batch_size, "act_dim">>, <<>>)
                 ELSE /\ t - 1 < n
                      /\ x = getitem(args.logp_u, t - 1)
                      /\ n = T => x # getitem(args.logp_u, T - 1)
         /\ pc = "done" =>
              Cardinality(steps) = IF cls = C /\ args.b = None THEN T - 1 ELSE T

C20_Witness ==
    /\ pc = "done"
    /\ DocumentedLength
    /\ cls = C
    /\ args.b = None
    /\ len(args.logp_o) >= 2
    /\ len(args.logp_u) = len(args.logp_o)
    /\ CallsOf(frame, "update_cell") # {}

\* The einsum of update_belief inside a belief posterior
\* softmax(log(s_next + eps) + logp_o): s_next.
NextStateEinsum(b_post) == Kids(Kids(Kids(Kids(b_post)[1])[1])[1])[1]

\* The label an einsum gives the axis at position p of its operand i.
LabelAt(e, i, p) == EqIns(Attr(e))[i][p]

\* C21: the axes of the transition tensor are used alike everywhere.  The
\* axis its softmax normalises is the destination-state axis (that of the
\* sink factor); update_belief keeps that axis as the index of the next
\* state and sums over the source-state axis, contracted with the current
\* belief, and over the action axis, contracted with the action posterior;
\* compute_value contracts the destination-state axis with the state value
\* V and keeps the source-state axis.
C21_TransitionAxes ==
    pc \in {"loop", "done"} =>
      LET tr == frame.transition
          rank == Len(EqOut(Attr(Kids(tr)[1])))
          src == SourceAxis(tr)
          dst == DestinationAxis(tr)
          act == ActionAxis(tr)
          q == Kids(frame.value)
      IN /\ Op(tr) = "softmax"
         /\ rank + 1 + Attr(tr)[1] = dst
         /\ Cardinality({src, dst, act}) = 3
         /\ \A i \in CallsOf(frame, "update_cell") :
              LET ev == frame.calls[i]
                  e == NextStateEinsum(StepBelief(cls, ev))
                  out == EqOut(Attr(e))
              IN /\ Op(e) = "einsum"
                 /\ Kids(e)[1] = tr
                 /\ Kids(e)[2] = at(frame.alpha_b, EvT(ev))
                 /\ LabelAt(e, 1, dst) = out[Len(out)]
                 /\ LabelAt(e, 1, dst) \notin Labels(EqIns(Attr(e))[2])
                 /\ LabelAt(e, 1, src) \in Contracted(Attr(e))
                 /\ LabelAt(e, 1, src) \in Labels(EqIns(Attr(e))[2])
                 /\ LabelAt(e, 1, act) \in Contracted(Attr(e))
                 /\ LabelAt(e, 1, act) \in Labels(EqIns(Attr(e))[3])
                 /\ LabelAt(e, 1, act) \notin Labels(EqIns(Attr(e))[2])
         /\ \A t \in 1..(horizon - 1) :
              LET e == Kids(q[t + 1])[2]
                  out == EqOut(Attr(e))
              IN /\ Op(e) = "einsum"
                 /\ Kids(e)[1] = tr
                 /\ Op(Kids(e)[2]) = "logsumexp"
                 /\ LabelAt(e, 1, dst) \in Contracted(Attr(e))
                 /\ LabelAt(e, 1, dst) \in Labels(EqIns(Attr(e))[2])
                 /\ LabelAt(e, 1, src) \in Labels(out)
                 /\ LabelAt(e, 1, src) \notin Labels(EqIns(Attr(e))[2])
                 /\ LabelAt(e, 1, act) \in Labels(out)

C21_Witness ==
    /\ pc = "done"
    /\ cls = A
    /\ horizon >= 2
    /\ Cardinality(CallsOf(frame, "update_cell")) >= 2
    /\ DestinationAxis(frame.transition) = 4
    /\ SourceAxis(frame.transition) = 3

\* The calls of one iteration of take_gradient_step, in their order.
IterationOrder ==
    <<"critic_backward", "critic_step", "actor_backward", "actor_step", "target_update">>

\* The entries of the log that are calls of method op.
SacCalls(op) == {k \in 1..Len(sac.log) : sac.log[k][1] = op}

\* The log holds whole iterations 0, 1, ... in the fixed order, at most
\* a_steps of them and exactly a_steps at the return; each target update
\* averages the target before it with the critic as that iteration's critic
\* step left it; the target requires no grad, holds no gradient and is in
\* no optimizer; the critic and the agent are in training mode inside the
\* loop and in evaluation mode after the return.
SacSchedule ==
    /\ \A k \in 1..Len(sac.log) :
         /\ sac.log[k][1] = IterationOrder[((k - 1) % 5) + 1]
         /\ sac.log[k][2] = (k - 1) \div 5
         /\ sac.log[k][2] < sac.a_steps
    /\ sac.pc = "returned" =>
         /\ Len(sac.log) = 5 * sac.a_steps
         /\ \A op \in {"critic_step", "actor_step", "target_update"} :
              Cardinality(SacCalls(op)) = sac.a_steps
    /\ \A k \in SacCalls("target_update") :
         LET before == sac.log[k - 1][4]
             critic_step == sac.log[k - 3]
         IN /\ critic_step[1] = "critic_step" /\ critic_step[2] = sac.log[k][2]
            /\ sac.log[k][4].target =
                 Term("add", <<>>,
                      <<Term("mul", <<"polyak">>, <<before.target>>),
                        Term("mul", <<"1 - polyak">>, <<critic_step[4].critic>>)>>)
            /\ sac.log[k][4].critic = critic_step[4].critic
            /\ sac.log[k][4].agent = before.agent
    /\ ~sac.requires_grad.target
    /\ sac.grad.target = <<>>
    /\ "target" \notin critic_optimizer_params \cup actor_optimizer_params
    /\ sac.pc \in {"loop", "critic_step", "actor", "actor_step", "target"} =>
         sac.mode.critic = "train" /\ sac.mode.agent = "train"
    /\ sac.pc = "returned" => sac.mode.critic = "eval" /\ sac.mode.agent = "eval"

\* The target changes in the target update only, the critic in the
\* critic's step only, the agent in the actor's step only.
SacWrites ==
    /\ sac'.params.target # sac.params.target =>
         sac.pc = "target" /\ sac'.i = sac.i + 1
    /\ sac'.params.critic # sac.params.critic => sac.pc = "critic_step"
    /\ sac'.params.agent # sac.params.agent => sac.pc = "actor_step"
    /\ sac'.requires_grad = sac.requires_grad

\* C22: take_gradient_step runs exactly a_steps iterations, each the
\* critic's optimizer step, then the actor's, then the target update; the
\* target critic is never trainable and changes only in the target update,
\* once per iteration, to polyak * target + (1 - polyak) * critic with the
\* critic as that iteration's critic step left it; the critic and the
\* agent are in training mode during the loop and in evaluation mode on
\* return.
C22_Schedule == []SacSchedule /\ [][SacWrites]_vars

C22_Witness ==
    /\ sac.pc = "returned"
    /\ sac.a_steps >= 2
    /\ Cardinality(SacCalls("target_update")) = sac.a_steps
    /\ sac.params.target # sac.params.critic
    /\ sac.params.target # Param("SAC", "critic", 0)

\* The gradients a buffer holds, those inside a clipped buffer included.
RECURSIVE Accumulated(_)
Accumulated(g) ==
    IF g = <<>> THEN <<>>
    ELSE (IF Head(g)[1] = "clip" THEN Accumulated(Head(g)[3]) ELSE <<Head(g)>>)
           \o Accumulated(Tail(g))

\* C23: after every optimizer step of take_gradient_step, and the two
\* zero_grad() that follow it, both the critic's and the actor's gradient
\* buffers are empty, so from the second iteration on the critic's step
\* applies the gradient of that iteration's critic loss and nothing else,
\* and the actor's step that of the actor loss; the gradient the actor
\* loss deposits on the critic's parameters is cleared before the next
\* critic step and no critic step applies it.
C23_GradientIsolation ==
    /\ sac.pc \in {"actor", "target", "returned"} \/ (sac.pc = "loop" /\ sac.i >= 1) =>
         (sac.pc = "returned" /\ sac.a_steps = 0)
           \/ (sac.grad.critic = <<>> /\ sac.grad.agent = <<>>)
    /\ \A k \in SacCalls("critic_step") :
         /\ sac.log[k][2] >= 1 =>
              Accumulated(sac.log[k][3]) = <<Grad("critic_loss", sac.log[k][2], <<>>)>>
         /\ \A j \in 1..Len(Accumulated(sac.log[k][3])) :
              Accumulated(sac.log[k][3])[j][1] # "actor_loss"
         /\ sac.log[k][4].critic = Term("step", <<sac.log[k][3]>>, <<sac.log[k - 1][4].critic>>)
    /\ \A k \in SacCalls("actor_step") :
         /\ sac.log[k][2] >= 1 =>
              Accumulated(sac.log[k][3]) = <<Grad("actor_loss", sac.log[k][2], <<>>)>>
         /\ sac.log[k][4].agent = Term("step", <<sac.log[k][3]>>, <<sac.log[k - 1][4].agent>>)
         /\ sac.log[k][4].critic = sac.log[k - 1][4].critic
    /\ sac.pc = "actor_step" =>
         Accumulated(sac.grad.critic) = <<Grad("actor_loss", sac.i, <<>>)>>

C23_Witness ==
    /\ sac.pc = "returned"
    /\ sac.a_steps >= 2
    /\ sac.grad_clip # "None"
    /\ \E k \in SacCalls("critic_step") :
         /\ sac.log[k][2] = 0
         /\ Grad("stale", -1, <<>>) \in
              {Accumulated(sac.log[k][3])[j] : j \in 1..Len(Accumulated(sac.log[k][3]))}
    /\ \E k \in SacCalls("critic_step") : sac.log[k][2] = 1

\* The entry of the observation obs named name in the list names.
Feature(names, obs, name) ==
    obs[CHOOSE i \in 1..Len(names) : names[i] = name]

\* C24: for every observation the reward CarfollowingReward.__call__
\* returns is never positive; its relative-distance feature is 0 when
\* lv_s_rel >= min_s_rel, at the threshold too, and -s_rel_penalty when
\* lv_s_rel < min_s_rel; a call with another control on the same
\* observation returns the same, and the caller's observation is as it
\* was passed.
C24_Reward ==
    rwd.op \in {"call", "again"} =>
      LET s_rel == Feature(rwd.feature_names, rwd.obs, "lv_s_rel")
          d == Feature(rwd.feature_names, rwd.obs, "ego_d")
          loom == Feature(rwd.feature_names, rwd.obs, "lv_inv_tau")
      IN /\ rwd.out.r <= 0
         /\ s_rel >= 3 => rwd.out.f2 = 0
         /\ s_rel < 3 => rwd.out.f2 = -10
         /\ rwd.out.r = -(d * d) + rwd.out.f2 - 10 * loom * loom
         /\ rwd.op = "again" =>
              /\ rwd.ctl # rwd.last.ctl
              /\ rwd.obs = rwd.last.obs
              /\ rwd.out = rwd.last.out

C24_Witness ==
    /\ rwd.op = "again"
    /\ Len(rwd.feature_names) = 4
    /\ Feature(rwd.feature_names, rwd.obs, "lv_s_rel") = 3
    /\ rwd.out.f2 = 0
    /\ rwd.out.r < 0
    /\ rwd.ctl # rwd.last.ctl

=============================================================================
